---- MODULE Spec2Model ----
(***************************************************************************)
(* Canvas AI chat service (src/chat-service/main.py): the in-memory        *)
(* session store, the two-phase /chat stream with its <think> filter, the  *)
(* intent classifier, the canvas JSON parser and the session endpoints.    *)
(*                                                                         *)
(* Text is modelled as a sequence of one-character strings, so that        *)
(* substring search, splitting and stripping are computed, not assumed.    *)
(* Time is counted in whole hours.                                         *)
(***************************************************************************)
EXTENDS Integers, Sequences, FiniteSets, TLC

VARIABLES
  MAX_HISTORY_MESSAGES,  \* configuration read from the environment at start
  SESSION_TTL_HOURS,     \* configuration read from the environment at start
  now,                   \* the wall clock (datetime.now()), in hours
  heap,                  \* the live ChatSession objects, by object identity
  _sessions,             \* the session store: session id -> object identity
  req,                   \* the /chat requests: one generate() frame per slot
  pending,               \* the completion backend's output still to be sent
  turns,                 \* number of /chat requests accepted so far
  last_response          \* the last response of a non-streaming endpoint

vars == <<MAX_HISTORY_MESSAGES, SESSION_TTL_HOURS, now, heap, _sessions, req,
          pending, turns, last_response>>

(***************************************************************************)
(* Bounds of the model.                                                    *)
(***************************************************************************)
MaxReqs == 2
MaxTurns == 2
StoreTurns == 2
RouteTurns == 2
HistoryTurns == 5
LiveTurns == 2
MaxTime == 1
MaxChunks == 2
MaxSegs == 3
MaxListLen == 2
MaxWords == 2
IdleTurns == 2
MaxCap == 2
WindowTurns == 3
RaceTurns == 2
OrphanTurns == 2

(***************************************************************************)
(* Python helpers on sequences and text.                                   *)
(***************************************************************************)
SetMin(S) == CHOOSE x \in S : \A y \in S : x <= y

SetMax(S) == CHOOSE x \in S : \A y \in S : x >= y

\* a slice bound, as Python clamps it for a list of length n
PyIdx(i, n) == IF i < 0 THEN SetMax({n + i, 0}) ELSE SetMin({i, n})

\* s[a:b]
PySlice(s, a, b) ==
  LET lo == PyIdx(a, Len(s))
      hi == PyIdx(b, Len(s))
  IN  IF lo >= hi THEN << >> ELSE SubSeq(s, lo + 1, hi)

\* s[a:]
PySliceFrom(s, a) == PySlice(s, a, Len(s))

\* position of the first occurrence of p in t at or after from; 0 if none
Find(t, p, from) ==
  LET cands == { i \in from..(Len(t) - Len(p) + 1) :
                   SubSeq(t, i, i + Len(p) - 1) = p }
  IN  IF cands = {} THEN 0 ELSE SetMin(cands)

\* p in t
Contains(t, p) == Find(t, p, 1) # 0

\* t.split(p, 1)[1], for a t that contains p
AfterFirst(t, p) == SubSeq(t, Find(t, p, 1) + Len(p), Len(t))

NL == "\n"

Whitespace == {" ", NL, "\t"}

RECURSIVE LStripSet(_, _)
LStripSet(t, S) ==
  IF t # << >> /\ Head(t) \in S THEN LStripSet(Tail(t), S) ELSE t

RECURSIVE RStripSet(_, _)
RStripSet(t, S) ==
  IF t # << >> /\ t[Len(t)] \in S
    THEN RStripSet(SubSeq(t, 1, Len(t) - 1), S)
    ELSE t

\* t.strip()
Strip(t) == RStripSet(LStripSet(t, Whitespace), Whitespace)

RECURSIVE Concat(_)
Concat(ss) == IF ss = << >> THEN << >> ELSE Head(ss) \o Concat(Tail(ss))

UpperCase ==
  <<"A","B","C","D","E","F","G","H","I","J","K","L","M",
    "N","O","P","Q","R","S","T","U","V","W","X","Y","Z">>

LowerCase ==
  <<"a","b","c","d","e","f","g","h","i","j","k","l","m",
    "n","o","p","q","r","s","t","u","v","w","x","y","z">>

LowerChar(c) ==
  IF \E i \in 1..26 : UpperCase[i] = c
    THEN LowerCase[CHOOSE i \in 1..26 : UpperCase[i] = c]
    ELSE c

\* t.lower()
Lower(t) == [i \in 1..Len(t) |-> LowerChar(t[i])]

(***************************************************************************)
(* Reasoning markup.                                                       *)
(***************************************************************************)
THINK_OPEN == <<"<","t","h","i","n","k",">">>

THINK_CLOSE == <<"<","/","t","h","i","n","k",">">>

\* _THINK_PATTERN.sub("", t): every leftmost, shortest <think>...</think>
\* match is removed; the scan resumes after the match
RECURSIVE ThinkPatternSub(_)
ThinkPatternSub(t) ==
  LET i == Find(t, THINK_OPEN, 1)
      j == IF i = 0 THEN 0 ELSE Find(t, THINK_CLOSE, i + Len(THINK_OPEN))
  IN  IF i = 0 \/ j = 0
        THEN t
        ELSE SubSeq(t, 1, i - 1)
               \o ThinkPatternSub(SubSeq(t, j + Len(THINK_CLOSE), Len(t)))

strip_think_tags(text) == LStripSet(ThinkPatternSub(text), {NL})

\* md.markdown is an external renderer: an opaque rendering of its input
md_to_html(text) == <<"html", text>>

(***************************************************************************)
(* Intent classifier.                                                      *)
(***************************************************************************)
KW_diagram ==
  {
    <<"a","r","c","h","i","t","e","c","t","u","r","e">>,
    <<"c","h","a","r","t">>,
    <<"c","l","a","s","s"," ","d","i","a","g","r","a","m">>,
    <<"d","i","a","g","r","a","m">>,
    <<"e","r"," ","d","i","a","g","r","a","m">>,
    <<"f","l","o","w","c","h","a","r","t">>,
    <<"g","a","n","t","t">>,
    <<"g","r","a","p","h">>,
    <<"m","i","n","d"," ","m","a","p">>,
    <<"m","i","n","d","m","a","p">>,
    <<"p","i","e"," ","c","h","a","r","t">>,
    <<"s","c","h","e","m","a">>,
    <<"s","e","q","u","e","n","c","e"," ","d","i","a","g","r","a","m">>,
    <<"s","t","a","t","e"," ","d","i","a","g","r","a","m">>,
    <<"u","m","l">>
  }

KW_image ==
  {
    <<"c","r","e","a","t","e"," ","a","n"," ","i","m","a","g","e">>,
    <<"c","r","e","a","t","e"," ","i","m","a","g","e">>,
    <<"c","r","e","a","t","e"," ","p","i","c","t","u","r","e">>,
    <<"g","e","n","e","r","a","t","e"," ","a"," ","p","h","o","t","o">>,
    <<"g","e","n","e","r","a","t","e"," ","a","n"," ","i","m","a","g","e">>,
    <<"g","e","n","e","r","a","t","e"," ","i","m","a","g","e">>,
    <<"g","e","n","e","r","a","t","e"," ","p","i","c","t","u","r","e">>,
    <<"i","l","l","u","s","t","r","a","t","i","o","n"," ","o","f">>,
    <<"i","m","a","g","e"," ","o","f">>,
    <<"m","a","k","e"," ","a"," ","p","i","c","t","u","r","e">>,
    <<"m","a","k","e"," ","a","n"," ","i","m","a","g","e">>,
    <<"p","h","o","t","o"," ","o","f">>,
    <<"p","i","c","t","u","r","e"," ","o","f">>
  }

KW_sketch ==
  {
    <<"c","o","n","v","e","r","t"," ","m","y"," ","d","r","a","w","i","n","g">>,
    <<"c","o","n","v","e","r","t"," ","s","k","e","t","c","h">>,
    <<"m","a","k","e"," ","i","t"," ","r","e","a","l","i","s","t","i","c">>,
    <<"m","a","k","e"," ","m","y"," ","s","k","e","t","c","h">>,
    <<"s","k","e","t","c","h"," ","t","o"," ","i","m","a","g","e">>,
    <<"s","k","e","t","c","h"," ","t","o"," ","r","e","a","l">>,
    <<"t","r","a","n","s","f","o","r","m"," ","s","k","e","t","c","h">>,
    <<"t","u","r","n"," ","m","y"," ","d","r","a","w","i","n","g">>,
    <<"t","u","r","n"," ","s","k","e","t","c","h">>
  }

KW_ocr ==
  {
    <<"e","x","t","r","a","c","t"," ","t","e","x","t">>,
    <<"o","c","r">>,
    <<"r","e","a","d"," ","t","e","x","t">>,
    <<"r","e","a","d"," ","t","h","e"," ","t","e","x","t">>,
    <<"r","e","c","o","g","n","i","z","e"," ","t","e","x","t">>,
    <<"s","c","a","n"," ","t","e","x","t">>,
    <<"t","e","x","t"," ","r","e","c","o","g","n","i","t","i","o","n">>,
    <<"w","h","a","t"," ","d","o","e","s"," ","i","t"," ","s","a","y">>,
    <<"w","h","a","t"," ","t","e","x","t">>
  }

KW_tts ==
  {
    <<"p","r","o","n","o","u","n","c","e">>,
    <<"r","e","a","d"," ","a","l","o","u","d">>,
    <<"r","e","a","d"," ","o","u","t">>,
    <<"r","e","a","d"," ","t","h","i","s"," ","a","l","o","u","d">>,
    <<"s","a","y"," ","i","t"," ","o","u","t"," ","l","o","u","d">>,
    <<"s","a","y"," ","t","h","i","s">>,
    <<"s","p","e","a","k">>,
    <<"t","e","x","t"," ","t","o"," ","s","p","e","e","c","h">>,
    <<"t","t","s">>,
    <<"v","o","i","c","e">>
  }

_DRAW_KEYWORDS ==
  {
    <<"a","d","d">>,
    <<"a","r","r","a","n","g","e">>,
    <<"a","r","r","o","w">>,
    <<"b","o","x">>,
    <<"b","u","i","l","d">>,
    <<"c","i","r","c","l","e">>,
    <<"c","o","n","n","e","c","t">>,
    <<"c","r","e","a","t","e">>,
    <<"d","e","s","i","g","n">>,
    <<"d","i","a","m","o","n","d">>,
    <<"d","r","a","w">>,
    <<"e","l","l","i","p","s","e">>,
    <<"i","n","s","e","r","t">>,
    <<"l","a","y","o","u","t">>,
    <<"l","i","n","k">>,
    <<"m","a","k","e">>,
    <<"n","o","t","e">>,
    <<"o","r","g","a","n","i","z","e">>,
    <<"p","l","a","c","e">>,
    <<"p","u","t">>,
    <<"r","e","c","t","a","n","g","l","e">>,
    <<"s","h","a","p","e">>,
    <<"s","t","i","c","k","y">>,
    <<"w","i","r","e","f","r","a","m","e">>
  }

_DIAGRAM_STYLES ==
  <<
    <<<<"f","l","o","w","c","h","a","r","t">>, "flowchart">>,
    <<<<"f","l","o","w"," ","c","h","a","r","t">>, "flowchart">>,
    <<<<"m","i","n","d","m","a","p">>, "mindmap">>,
    <<<<"m","i","n","d"," ","m","a","p">>, "mindmap">>,
    <<<<"s","e","q","u","e","n","c","e">>, "sequence">>,
    <<<<"c","l","a","s","s"," ","d","i","a","g","r","a","m">>, "classDiagram">>,
    <<<<"e","r"," ","d","i","a","g","r","a","m">>, "erDiagram">>,
    <<<<"s","t","a","t","e"," ","d","i","a","g","r","a","m">>, "stateDiagram">>,
    <<<<"g","a","n","t","t">>, "gantt">>,
    <<<<"p","i","e">>, "pie">>
  >>

\* ToolOrder with the dict built in the reverse order
ToolOrder_m == <<"tts", "ocr", "sketch", "image", "diagram">>

\* the iteration order of the _TOOL_KEYWORDS dict
ToolOrder == <<"diagram", "image", "sketch", "ocr", "tts">>

_TOOL_KEYWORDS(tool_name) ==
  CASE tool_name = "diagram" -> KW_diagram
    [] tool_name = "image" -> KW_image
    [] tool_name = "sketch" -> KW_sketch
    [] tool_name = "ocr" -> KW_ocr
    [] tool_name = "tts" -> KW_tts

\* any(kw in msg_lower for kw in keywords)
AnyKeyword(msg_lower, keywords) == \E kw \in keywords : Contains(msg_lower, kw)

\* the style of the first entry of _DIAGRAM_STYLES found in the message
DiagramStyle(msg_lower) ==
  LET hits == { i \in 1..Len(_DIAGRAM_STYLES) :
                  Contains(msg_lower, _DIAGRAM_STYLES[i][1]) }
  IN  IF hits = {} THEN "flowchart" ELSE _DIAGRAM_STYLES[SetMin(hits)][2]

\* the None result of detect_tool_intent
NoIntent == [tool |-> "none"]

detect_tool_intent(message) ==
  LET msg_lower == Lower(message)
      hits == { i \in 1..Len(ToolOrder) :
                  AnyKeyword(msg_lower, _TOOL_KEYWORDS(ToolOrder[i])) }
  IN  IF hits # {}
        THEN LET tool_name == ToolOrder[SetMin(hits)]
             IN  IF tool_name = "diagram"
                   THEN [tool |-> tool_name, prompt |-> message,
                         style |-> DiagramStyle(msg_lower)]
                   ELSE [tool |-> tool_name, prompt |-> message]
        ELSE IF AnyKeyword(msg_lower, _DRAW_KEYWORDS)
          THEN [tool |-> "draw", prompt |-> message]
          ELSE NoIntent

(***************************************************************************)
(* JSON values and the canvas element parser.  A Python value is a tagged  *)
(* record; the text of a JSON document is one token of the raw output,     *)
(* decoded by table.                                                       *)
(***************************************************************************)
JNull == [j |-> "null"]

JNum(n) == [j |-> "num", v |-> n]

JStr(s) == [j |-> "str", v |-> s]

JObj(f) == [j |-> "obj", v |-> f]

JList(items) == [j |-> "list", v |-> items]

JSONDecodeError == [j |-> "JSONDecodeError"]

T_rectangle == <<"r","e","c","t","a","n","g","l","e">>

T_text == <<"t","e","x","t">>

T_Start == <<"S","t","a","r","t">>

\* the JSON documents the structured backend is modelled to produce
DOC_EMPTY == "[]"

DOC_OBJECT == "{\"type\":\"rectangle\"}"

DOC_RECT == "[{\"type\":\"rectangle\"}]"

DOC_LABELLED == "[{\"type\":\"text\",\"x\":5,\"text\":\"Start\",\"width\":null}]"

DOC_BADITEM == "[{\"type\":\"rectangle\"},7]"

DOC_NULLTEXT == "[{\"x\":\"left\",\"text\":null}]"

JsonDocs ==
  {DOC_EMPTY, DOC_OBJECT, DOC_RECT, DOC_LABELLED, DOC_BADITEM, DOC_NULLTEXT}

DecodeDoc(doc) ==
  CASE doc = DOC_EMPTY -> JList(<< >>)
    [] doc = DOC_OBJECT -> JObj([type |-> JStr(T_rectangle)])
    [] doc = DOC_RECT -> JList(<<JObj([type |-> JStr(T_rectangle)])>>)
    [] doc = DOC_LABELLED ->
         JList(<<JObj([type |-> JStr(T_text), x |-> JNum(5),
                       text |-> JStr(T_Start), width |-> JNull])>>)
    [] doc = DOC_BADITEM ->
         JList(<<JObj([type |-> JStr(T_rectangle)]), JNum(7)>>)
    [] doc = DOC_NULLTEXT ->
         JList(<<JObj([x |-> JStr(<<"l","e","f","t">>), text |-> JNull])>>)

\* json.loads(text): surrounding whitespace is allowed, anything else that
\* is not exactly one document does not decode
json_loads(text) ==
  LET s == Strip(text)
  IN  IF Len(s) = 1 /\ s[1] \in JsonDocs
        THEN DecodeDoc(s[1])
        ELSE JSONDecodeError

\* the backquote character, which a TLA+ string cannot hold
Backquote == "BACKQUOTE"

BACKTICKS == <<Backquote, Backquote, Backquote>>

Digits == <<"0","1","2","3","4","5","6","7","8","9">>

WordChars ==
  { LowerCase[i] : i \in 1..26 } \cup { UpperCase[i] : i \in 1..26 }
    \cup { Digits[i] : i \in 1..10 } \cup {"_"}

\* _FENCE_OPEN.sub("", text), the pattern being ^BACKTICKS\w*\n?
_FENCE_OPEN_sub(text) ==
  IF Len(text) < 3 \/ SubSeq(text, 1, 3) # BACKTICKS
    THEN text
    ELSE LET rest == LStripSet(SubSeq(text, 4, Len(text)), WordChars)
         IN  IF rest # << >> /\ Head(rest) = NL THEN Tail(rest) ELSE rest

\* _FENCE_CLOSE.sub("", text), the pattern being \n?BACKTICKS$
_FENCE_CLOSE_sub(text) ==
  LET n == Len(text)
  IN  IF n >= 3 /\ SubSeq(text, n - 2, n) = BACKTICKS
        THEN IF n >= 4 /\ text[n - 3] = NL
               THEN SubSeq(text, 1, n - 4)
               ELSE SubSeq(text, 1, n - 3)
        ELSE text

\* the fields of CanvasElement
RequiredStr == {"type"}

DefaultedFloat == {"x", "y"}

OptionalFloat == {"width", "height"}

OptionalStr ==
  {"text", "backgroundColor", "strokeColor", "id", "startId", "endId"}

OptionalInt == {"fontSize"}

\* CanvasElement(**item) does not raise
Validates(item) ==
  /\ item.j = "obj"
  /\ \A k \in RequiredStr : k \in DOMAIN item.v /\ item.v[k].j = "str"
  /\ \A k \in DefaultedFloat \cap DOMAIN item.v : item.v[k].j = "num"
  /\ \A k \in (OptionalFloat \cup OptionalInt) \cap DOMAIN item.v :
       item.v[k].j \in {"num", "null"}
  /\ \A k \in OptionalStr \cap DOMAIN item.v : item.v[k].j \in {"str", "null"}

\* CanvasElement(**item).model_dump(exclude_none=True)
ModelDump(item) ==
  LET optional == OptionalFloat \cup OptionalInt \cup OptionalStr
      kept == { k \in optional \cap DOMAIN item.v : item.v[k].j # "null" }
  IN  JObj([k \in RequiredStr \cup DefaultedFloat \cup kept |->
              IF k \in DOMAIN item.v THEN item.v[k] ELSE JNum(100)])

parse_canvas_json(raw) ==
  LET stripped == Strip(strip_think_tags(raw))
      text == IF Len(stripped) >= 3 /\ SubSeq(stripped, 1, 3) = BACKTICKS
                THEN _FENCE_CLOSE_sub(_FENCE_OPEN_sub(stripped))
                ELSE stripped
      parsed == json_loads(text)
  IN  IF parsed.j = "list" /\ Len(parsed.v) > 0
        THEN JList([i \in 1..Len(parsed.v) |->
                      IF Validates(parsed.v[i])
                        THEN ModelDump(parsed.v[i])
                        ELSE parsed.v[i]])
        ELSE JNull

(***************************************************************************)
(* Rendering of numbers and of element summaries.                          *)
(***************************************************************************)
RECURSIVE IntStr(_)
\* str(n) for a natural number n
IntStr(n) ==
  IF n < 10 THEN <<Digits[n + 1]>> ELSE IntStr(n \div 10) \o <<Digits[(n % 10) + 1]>>

T_unknown == <<"u","n","k","n","o","w","n">>

\* how an f-string renders a Python value
Render(v) ==
  CASE v.j = "str" -> v.v
    [] v.j = "num" -> IntStr(v.v)
    [] OTHER -> <<"N","o","n","e">>

\* el.get(key, default) of a dict
DictGet(el, key, default) == IF key \in DOMAIN el.v THEN el.v[key] ELSE default

\* "sep".join(parts)
RECURSIVE Join(_, _)
Join(sep, parts) ==
  IF parts = << >> THEN << >>
  ELSE IF Len(parts) = 1 THEN parts[1]
  ELSE parts[1] \o sep \o Join(sep, Tail(parts))

\* el.get(...) or .strip() raises AttributeError for this element
GetTextRaises(el) ==
  \/ el.j # "obj"
  \/ "text" \in DOMAIN el.v /\ el.v["text"].j # "str"

\* el.get("text", "").strip()
ElementText(el) == Strip(DictGet(el, "text", JStr(<< >>)).v)

(***************************************************************************)
(* Sessions.                                                               *)
(***************************************************************************)
EMPTY_CANVAS == <<"The whiteboard is currently completely empty.">>

HumanMessage(content) ==
  [role |-> "human", content |-> content, additional_kwargs |-> << >>]

AIMessage(content, final_reasoning) ==
  [role |-> "ai", content |-> content,
   additional_kwargs |->
     IF final_reasoning # << >>
       THEN << <<"reasoning_details", final_reasoning>> >>
       ELSE << >>]

\* ChatSession.__init__
ChatSession(session_id, t) ==
  [session_id |-> session_id, messages |-> << >>,
   canvas_context |-> EMPTY_CANVAS, created_at |-> t, last_active |-> t]

\* ChatSession.trim_history, on the message list
trim_history(messages, max) ==
  IF Len(messages) > max THEN PySliceFrom(messages, -max) ELSE messages

\* get_chain_input that starts the message list over with the new message
get_chain_input_m(session, user_input, t, max) ==
  LET messages == <<HumanMessage(user_input)>>
      history == PySlice(messages, -max, -1)
      injected_input ==
        <<"[SYSTEM NOTE: Current Live Canvas Context]\n">>
          \o session.canvas_context \o <<"\n\n", "[User Request]\n">>
          \o user_input
  IN  [session |-> [session EXCEPT !.last_active = t, !.messages = messages],
       result |-> [input |-> injected_input, history |-> history,
                   canvas_context |-> session.canvas_context]]

\* ChatSession.get_chain_input: the session after the call and the result
get_chain_input(session, user_input, t, max) ==
  LET messages == Append(session.messages, HumanMessage(user_input))
      history == PySlice(messages, -max, -1)
      injected_input ==
        <<"[SYSTEM NOTE: Current Live Canvas Context]\n">>
          \o session.canvas_context \o <<"\n\n", "[User Request]\n">>
          \o user_input
  IN  [session |-> [session EXCEPT !.last_active = t, !.messages = messages],
       result |-> [input |-> injected_input, history |-> history,
                   canvas_context |-> session.canvas_context]]

(***************************************************************************)
(* Server-sent events.                                                     *)
(***************************************************************************)
Comment(text) == [type |-> "comment", text |-> text]

TokenEvent(token) == [type |-> "token", token |-> token, done |-> FALSE]

DoneEvent(html, session_id) ==
  [type |-> "done", token |-> << >>, done |-> TRUE, html |-> html,
   session_id |-> session_id]

ErrorEvent(error, session_id) ==
  [type |-> "error", token |-> << >>, done |-> TRUE, error |-> error,
   session_id |-> session_id]

CanvasActionEvent(elements) == [type |-> "canvas_action", elements |-> elements]

\* ToolActionEvent with the prompt in place of the clean response
ToolActionEvent_m(tool_intent, message, clean_response) ==
  LET prompt == IF "prompt" \in DOMAIN tool_intent
                  THEN tool_intent.prompt ELSE message
      base == [type |-> "tool_action", tool |-> tool_intent.tool,
               prompt |-> prompt]
  IN  IF tool_intent.tool = "diagram" /\ "style" \in DOMAIN tool_intent
        THEN [type |-> "tool_action", tool |-> tool_intent.tool,
              prompt |-> prompt, style |-> tool_intent.style]
        ELSE IF tool_intent.tool = "tts"
          THEN [type |-> "tool_action", tool |-> tool_intent.tool,
                prompt |-> prompt, text |-> prompt]
          ELSE base

ToolActionEvent(tool_intent, message, clean_response) ==
  LET prompt == IF "prompt" \in DOMAIN tool_intent
                  THEN tool_intent.prompt ELSE message
      base == [type |-> "tool_action", tool |-> tool_intent.tool,
               prompt |-> prompt]
  IN  IF tool_intent.tool = "diagram" /\ "style" \in DOMAIN tool_intent
        THEN [type |-> "tool_action", tool |-> tool_intent.tool,
              prompt |-> prompt, style |-> tool_intent.style]
        ELSE IF tool_intent.tool = "tts"
          THEN [type |-> "tool_action", tool |-> tool_intent.tool,
                prompt |-> prompt, text |-> clean_response]
          ELSE base

TIMEOUT_MESSAGE == "LLM response timed out. Please try again."

(***************************************************************************)
(* The <think> filter of the streaming loop: one chunk with non-empty text.*)
(***************************************************************************)
FilterStep(inside_think, chunks_yielded, token) ==
  LET inside == inside_think \/ Contains(token, THINK_OPEN)
  IN  IF inside
        THEN IF Contains(token, THINK_CLOSE)
               THEN LET after == AfterFirst(token, THINK_CLOSE)
                    IN  IF Strip(after) # << >>
                          THEN [inside_think |-> FALSE,
                                chunks_yielded |-> chunks_yielded + 1,
                                emit |-> <<TokenEvent(after)>>]
                          ELSE [inside_think |-> FALSE,
                                chunks_yielded |-> chunks_yielded,
                                emit |-> << >>]
               ELSE [inside_think |-> TRUE,
                     chunks_yielded |-> chunks_yielded + 1,
                     emit |-> IF (chunks_yielded + 1) % 10 = 0
                                THEN <<Comment("keepalive")>> ELSE << >>]
        ELSE [inside_think |-> FALSE, chunks_yielded |-> chunks_yielded,
              emit |-> <<TokenEvent(token)>>]

(***************************************************************************)
(* State of the service.                                                   *)
(***************************************************************************)
Reqs == 1..MaxReqs

EmptyMap == [x \in {} |-> x]

Put(f, k, v) == [x \in DOMAIN f \cup {k} |-> IF x = k THEN v ELSE f[x]]

Remove(f, K) == [x \in DOMAIN f \ K |-> f[x]]

\* req.session_id is None (or empty)
Absent == ""

UuidNames == <<"u1", "u2", "u3", "u4", "u5", "u6", "u7", "u8">>

\* str(uuid.uuid4()): an id that names no session of the store
NewUuid(store) ==
  UuidNames[SetMin({ i \in 1..Len(UuidNames) : UuidNames[i] \notin DOMAIN store })]

\* the identity of a newly allocated ChatSession object
NewObj(hp) == SetMin({ i \in 1..(Cardinality(DOMAIN hp) + 1) : i \notin DOMAIN hp })

\* a chunk without reasoning_details: .get() and getattr() give None
NoPayload == JNull

\* if rd
PyTruthy(v) == v.j # "null" /\ v.v # << >>

\* repr() of a str, of a dict of one key, or of a list of these
RECURSIVE PyRepr(_)
PyRepr(v) ==
  IF v.j = "str" THEN <<"'">> \o v.v \o <<"'">>
  ELSE IF v.j = "obj"
    THEN LET key == CHOOSE k \in DOMAIN v.v : TRUE
         IN  <<"{", "'", key, "'", ": ">> \o PyRepr(v.v[key]) \o <<"}">>
    ELSE <<"[">> \o Join(<<", ">>, [i \in 1..Len(v.v) |-> PyRepr(v.v[i])])
           \o <<"]">>

\* str(rd)
PyStr(v) == IF v.j = "str" THEN v.v ELSE PyRepr(v)

NoResponse == [endpoint |-> "none"]

\* a request slot with no generate() frame
IdleReq ==
  [pc |-> "idle", session_id |-> Absent, session |-> 0, message |-> << >>,
   before |-> << >>, chain_input |-> << >>, tool_intent |-> NoIntent,
   full_response_parts |-> << >>, reasoning_details_accum |-> << >>,
   inside_think |-> FALSE, chunks_yielded |-> 0, clean_response |-> << >>,
   canvas_input |-> << >>, out |-> << >>]

\* the frame of generate() is alive
InFlight(q) == q.pc \in {"streaming", "assembled", "drawing"}

\* objects no longer referenced by the store or by a live frame are freed
Reclaim(hp, store, rq) ==
  LET live == { store[s] : s \in DOMAIN store }
                \cup { rq[r].session : r \in { x \in Reqs : InFlight(rq[x]) } }
  IN  [o \in DOMAIN hp \cap live |-> hp[o]]

\* the slot a new request runs in
FreeSlot == SetMin({ r \in Reqs : ~InFlight(req[r]) })

\* the events of a stream, without SSE comment lines
Events(out) == SelectSeq(out, LAMBDA e : e.type # "comment")

InitWith(maxes, ttls) ==
  /\ MAX_HISTORY_MESSAGES \in maxes
  /\ SESSION_TTL_HOURS \in ttls
  /\ now = 0
  /\ heap = EmptyMap
  /\ _sessions = EmptyMap
  /\ req = [r \in Reqs |-> IdleReq]
  /\ pending = [r \in Reqs |-> << >>]
  /\ turns = 0
  /\ last_response = NoResponse

(***************************************************************************)
(* POST /chat: the handler up to the start of the stream.                  *)
(***************************************************************************)
\* GetOrCreate without the membership test: a session is always created
GetOrCreate_m(store, hp, sid_in, t) ==
  LET session_id == IF sid_in = Absent THEN NewUuid(store) ELSE sid_in
      obj == NewObj(hp)
  IN  [session_id |-> session_id, session |-> obj,
       store |-> Put(store, session_id, obj),
       heap |-> Put(hp, obj, ChatSession(session_id, t))]

\* get or create session
GetOrCreate(store, hp, sid_in, t) ==
  LET session_id == IF sid_in = Absent THEN NewUuid(store) ELSE sid_in
  IN  IF session_id \notin DOMAIN store
        THEN LET obj == NewObj(hp)
             IN  [session_id |-> session_id, session |-> obj,
                  store |-> Put(store, session_id, obj),
                  heap |-> Put(hp, obj, ChatSession(session_id, t))]
        ELSE [session_id |-> session_id, session |-> store[session_id],
              store |-> store, heap |-> hp]

ChatStart(sid_in, message, output) ==
  /\ \E r \in Reqs : ~InFlight(req[r])
  /\ LET r == FreeSlot
         goc == GetOrCreate(_sessions, heap, sid_in, now)
         gci == get_chain_input(goc.heap[goc.session], message, now,
                                MAX_HISTORY_MESSAGES)
     IN  /\ _sessions' = goc.store
         /\ req' = [req EXCEPT ![r] =
                      [IdleReq EXCEPT
                         !.pc = "streaming",
                         !.session_id = goc.session_id,
                         !.session = goc.session,
                         !.message = message,
                         !.before = goc.heap[goc.session].messages,
                         !.chain_input = gci.result,
                         !.tool_intent = detect_tool_intent(message),
                         !.out = <<Comment("heartbeat")>>]]
         /\ heap' = Reclaim(Put(goc.heap, goc.session, gci.session),
                            _sessions', req')
         /\ pending' = [pending EXCEPT ![r] = output]
         /\ turns' = turns + 1
  /\ UNCHANGED <<MAX_HISTORY_MESSAGES, SESSION_TTL_HOURS, now, last_response>>

(***************************************************************************)
(* generate(), phase 1: one chunk of chat_chain.astream.                   *)
(***************************************************************************)
ChunkArrive(r, k, rd) ==
  /\ req[r].pc = "streaming"
  /\ k \in 0..Len(pending[r])
  /\ LET q == req[r]
         token == SubSeq(pending[r], 1, k)
         accum == IF PyTruthy(rd)
                    THEN Append(q.reasoning_details_accum, PyStr(rd))
                    ELSE q.reasoning_details_accum
         f == FilterStep(q.inside_think, q.chunks_yielded, token)
     IN  /\ req' = [req EXCEPT ![r] =
                      IF token = << >>
                        THEN [q EXCEPT !.reasoning_details_accum = accum]
                        ELSE [q EXCEPT
                                !.reasoning_details_accum = accum,
                                !.full_response_parts = Append(@, token),
                                !.inside_think = f.inside_think,
                                !.chunks_yielded = f.chunks_yielded,
                                !.out = @ \o f.emit]]
         /\ pending' = [pending EXCEPT ![r] = SubSeq(@, k + 1, Len(@))]
  /\ UNCHANGED <<MAX_HISTORY_MESSAGES, SESSION_TTL_HOURS, now, heap, _sessions,
                 turns, last_response>>

\* StreamEnd that appends the assistant message to the message list as it
\* was when the request was accepted and stores that list
StreamEnd_m(r) ==
  /\ req[r].pc = "streaming"
  /\ pending[r] = << >>
  /\ LET q == req[r]
         full_response == Concat(q.full_response_parts)
         clean_response == strip_think_tags(full_response)
         final_reasoning == Concat(q.reasoning_details_accum)
         ai_msg == AIMessage(clean_response, final_reasoning)
         snapshot == Append(q.before, HumanMessage(q.message))
         messages == trim_history(Append(snapshot, ai_msg),
                                  MAX_HISTORY_MESSAGES)
     IN  /\ heap' = [heap EXCEPT ![q.session].messages = messages]
         /\ req' = [req EXCEPT ![r] =
                      [q EXCEPT
                         !.pc = "assembled",
                         !.clean_response = clean_response,
                         !.out = Append(@, DoneEvent(md_to_html(clean_response),
                                                     q.session_id))]]
  /\ UNCHANGED <<MAX_HISTORY_MESSAGES, SESSION_TTL_HOURS, now, _sessions,
                 pending, turns, last_response>>

\* the stream is exhausted: assemble, save to history, send the done event
StreamEnd(r) ==
  /\ req[r].pc = "streaming"
  /\ pending[r] = << >>
  /\ LET q == req[r]
         full_response == Concat(q.full_response_parts)
         clean_response == strip_think_tags(full_response)
         final_reasoning == Concat(q.reasoning_details_accum)
         ai_msg == AIMessage(clean_response, final_reasoning)
         session == heap[q.session]
         messages == trim_history(Append(session.messages, ai_msg),
                                  MAX_HISTORY_MESSAGES)
     IN  /\ heap' = [heap EXCEPT ![q.session].messages = messages]
         /\ req' = [req EXCEPT ![r] =
                      [q EXCEPT
                         !.pc = "assembled",
                         !.clean_response = clean_response,
                         !.out = Append(@, DoneEvent(md_to_html(clean_response),
                                                     q.session_id))]]
  /\ UNCHANGED <<MAX_HISTORY_MESSAGES, SESSION_TTL_HOURS, now, _sessions,
                 pending, turns, last_response>>

\* a slot whose generate() has returned: its frame is gone, the stream it
\* sent stays with the client
ClosedReq(q, out) ==
  [IdleReq EXCEPT !.pc = "closed", !.session_id = q.session_id, !.out = out]

\* Abort that stores the turn's session under its id again
Abort_m(r, error) ==
  /\ req' = [req EXCEPT ![r] =
               ClosedReq(req[r], Append(req[r].out,
                                        ErrorEvent(error, req[r].session_id)))]
  /\ _sessions' = Put(_sessions, req[r].session_id, req[r].session)
  /\ heap' = Reclaim(heap, _sessions', req')
  /\ pending' = [pending EXCEPT ![r] = << >>]
  /\ UNCHANGED <<MAX_HISTORY_MESSAGES, SESSION_TTL_HOURS, now,
                 turns, last_response>>

\* the stream ends with an error event
Abort(r, error) ==
  /\ req' = [req EXCEPT ![r] =
               ClosedReq(req[r], Append(req[r].out,
                                        ErrorEvent(error, req[r].session_id)))]
  /\ heap' = Reclaim(heap, _sessions, req')
  /\ pending' = [pending EXCEPT ![r] = << >>]
  /\ UNCHANGED <<MAX_HISTORY_MESSAGES, SESSION_TTL_HOURS, now, _sessions,
                 turns, last_response>>

\* chat_chain.astream raises
ChatFail(r) ==
  /\ req[r].pc = "streaming"
  /\ Abort(r, "chat backend error")

\* ChatTimeout with the timeout armed only once the first chunk has arrived
ChatTimeout_m(r) ==
  /\ req[r].pc = "streaming"
  /\ req[r].full_response_parts # << >>
  /\ Abort(r, TIMEOUT_MESSAGE)

\* asyncio.timeout(90) expires while the next chunk is awaited
ChatTimeout(r) ==
  /\ req[r].pc = "streaming"
  /\ Abort(r, TIMEOUT_MESSAGE)

(***************************************************************************)
(* generate(), phase 2: routing after the done event.                      *)
(***************************************************************************)
\* generate() returns after sending the events in emit
Finish(r, emit) ==
  /\ req' = [req EXCEPT ![r] = ClosedReq(req[r], req[r].out \o emit)]
  /\ heap' = Reclaim(heap, _sessions, req')
  /\ UNCHANGED <<MAX_HISTORY_MESSAGES, SESSION_TTL_HOURS, now, _sessions,
                 pending, turns, last_response>>

\* Route with the draw branch falling through to the tool dispatch
Route_m(r) ==
  /\ req[r].pc = "assembled"
  /\ LET q == req[r]
     IN  IF q.tool_intent = NoIntent
           THEN Finish(r, << >>)
           ELSE IF q.tool_intent.tool = "draw"
             THEN /\ req' = [req EXCEPT ![r] =
                               [q EXCEPT
                                  !.pc = "drawing",
                                  !.canvas_input =
                                    [canvas_context |->
                                       heap[q.session].canvas_context,
                                     input |-> q.message],
                                  !.out = Append(@, ToolActionEvent(
                                            q.tool_intent, q.message,
                                            q.clean_response))]]
                  /\ UNCHANGED <<MAX_HISTORY_MESSAGES, SESSION_TTL_HOURS, now,
                                 heap, _sessions, pending, turns, last_response>>
             ELSE Finish(r, <<ToolActionEvent(q.tool_intent, q.message,
                                              q.clean_response)>>)

Route(r) ==
  /\ req[r].pc = "assembled"
  /\ LET q == req[r]
     IN  IF q.tool_intent = NoIntent
           THEN Finish(r, << >>)
           ELSE IF q.tool_intent.tool = "draw"
             THEN /\ req' = [req EXCEPT ![r] =
                               [q EXCEPT
                                  !.pc = "drawing",
                                  !.canvas_input =
                                    [canvas_context |->
                                       heap[q.session].canvas_context,
                                     input |-> q.message]]]
                  /\ UNCHANGED <<MAX_HISTORY_MESSAGES, SESSION_TTL_HOURS, now,
                                 heap, _sessions, pending, turns, last_response>>
             ELSE Finish(r, <<ToolActionEvent(q.tool_intent, q.message,
                                              q.clean_response)>>)

\* one line of the summary of a drawn element
DrawnPart(el) ==
  LET el_type == Render(DictGet(el, "type", JStr(T_unknown)))
      el_text == ElementText(el)
  IN  IF el_text # << >>
        THEN <<"- ">> \o el_type \o <<": \"">> \o el_text \o <<"\"">>
        ELSE <<"- ">> \o el_type

\* the text appended to the session context after a drawing
DrawnSummary(elements) ==
  <<"\n\nAI just drew ">> \o IntStr(Len(elements)) \o <<" elements:\n">>
    \o Join(<<NL>>, [i \in 1..Len(elements) |-> DrawnPart(elements[i])])

\* canvas_chain.ainvoke returns raw_output
CanvasReturn(r, raw_output) ==
  /\ req[r].pc = "drawing"
  /\ LET q == req[r]
         elements == parse_canvas_json(raw_output)
     IN  IF elements = JNull
           THEN Finish(r, << >>)
           ELSE IF \E i \in 1..Len(elements.v) : GetTextRaises(elements.v[i])
             THEN Abort(r, "AttributeError")
             ELSE /\ req' = [req EXCEPT ![r] =
                               [q EXCEPT
                                  !.pc = "closed",
                                  !.out = Append(@, CanvasActionEvent(elements.v))]]
                  /\ heap' = Reclaim(
                               [heap EXCEPT ![q.session].canvas_context =
                                  @ \o DrawnSummary(elements.v)],
                               _sessions, req')
                  /\ UNCHANGED <<MAX_HISTORY_MESSAGES, SESSION_TTL_HOURS, now,
                                 _sessions, pending, turns, last_response>>

\* canvas_chain.ainvoke raises
CanvasFail(r) ==
  /\ req[r].pc = "drawing"
  /\ Abort(r, "canvas backend error")

\* asyncio.timeout(60) expires while canvas_chain.ainvoke is awaited
CanvasTimeout(r) ==
  /\ req[r].pc = "drawing"
  /\ Abort(r, TIMEOUT_MESSAGE)

(***************************************************************************)
(* The session endpoints.                                                  *)
(***************************************************************************)
RECURSIVE SortedSeq(_)
SortedSeq(S) ==
  IF S = {} THEN << >> ELSE <<SetMin(S)>> \o SortedSeq(S \ {SetMin(S)})

\* el.get("type", "unknown")
ElementType(el) == DictGet(el, "type", JStr(T_unknown))

\* SummarizeElements without the test on the text: every element is listed
SummarizeElements_m(elements) ==
  LET els == PySlice(elements, 0, 50)
      firsts == SortedSeq({ i \in 1..Len(els) :
                  \A h \in 1..(i - 1) : ElementType(els[h]) # ElementType(els[i]) })
      count(i) == Cardinality({ h \in 1..Len(els) :
                                  ElementType(els[h]) = ElementType(els[i]) })
      counts_str == Join(<<",", " ">>,
                      [n \in 1..Len(firsts) |->
                         IntStr(count(firsts[n])) \o <<" ">>
                           \o Render(ElementType(els[firsts[n]])) \o <<"(s)">>])
      labelled == SortedSeq(1..Len(els))
      summary_parts == [n \in 1..Len(labelled) |->
                          <<"- ">> \o Render(ElementType(els[labelled[n]]))
                            \o <<": \"">> \o ElementText(els[labelled[n]])
                            \o <<"\"">>]
      elements_str == Join(<<NL>>, PySlice(summary_parts, 0, 20))
      head == <<"The whiteboard currently has ">> \o IntStr(Len(elements))
                \o <<" shape(s)/element(s) drawn by the user: ">> \o counts_str
  IN  IF elements_str # << >>
        THEN head \o <<".\n", "Text content written on the whiteboard:\n">>
               \o elements_str
        ELSE head \o <<". There is no text written on the board.">>

\* the context string built from the element list of a context update
SummarizeElements(elements) ==
  LET els == PySlice(elements, 0, 50)
      firsts == SortedSeq({ i \in 1..Len(els) :
                  \A h \in 1..(i - 1) : ElementType(els[h]) # ElementType(els[i]) })
      count(i) == Cardinality({ h \in 1..Len(els) :
                                  ElementType(els[h]) = ElementType(els[i]) })
      counts_str == Join(<<",", " ">>,
                      [n \in 1..Len(firsts) |->
                         IntStr(count(firsts[n])) \o <<" ">>
                           \o Render(ElementType(els[firsts[n]])) \o <<"(s)">>])
      labelled == SortedSeq({ i \in 1..Len(els) :
                    /\ ElementText(els[i]) # << >>
                    /\ Len(ElementText(els[i])) < 200 })
      summary_parts == [n \in 1..Len(labelled) |->
                          <<"- ">> \o Render(ElementType(els[labelled[n]]))
                            \o <<": \"">> \o ElementText(els[labelled[n]])
                            \o <<"\"">>]
      elements_str == Join(<<NL>>, PySlice(summary_parts, 0, 20))
      head == <<"The whiteboard currently has ">> \o IntStr(Len(elements))
                \o <<" shape(s)/element(s) drawn by the user: ">> \o counts_str
  IN  IF elements_str # << >>
        THEN head \o <<".\n", "Text content written on the whiteboard:\n">>
               \o elements_str
        ELSE head \o <<". There is no text written on the board.">>

NoDescription == << >>

NoElements == << >>

\* NewCanvasContext with += in place of =: the element summary is appended
NewCanvasContext_m(canvas_context, description, elements) ==
  IF description # NoDescription
    THEN description
    ELSE IF elements # NoElements
      THEN canvas_context \o SummarizeElements(elements)
      ELSE EMPTY_CANVAS

\* the value update_canvas_context assigns to session.canvas_context
NewCanvasContext(canvas_context, description, elements) ==
  IF description # NoDescription
    THEN description
    ELSE IF elements # NoElements
      THEN SummarizeElements(elements)
      ELSE EMPTY_CANVAS

\* update_canvas_context with setdefault in place of get: an unknown id
\* gets a new session
update_canvas_context_m(session_id, description, elements) ==
  /\ LET known == session_id \in DOMAIN _sessions
         obj == IF known THEN _sessions[session_id] ELSE NewObj(heap)
         session == IF known THEN heap[obj] ELSE ChatSession(session_id, now)
     IN  /\ _sessions' = Put(_sessions, session_id, obj)
         /\ heap' = Put(heap, obj,
                        [session EXCEPT !.canvas_context =
                           NewCanvasContext(@, description, elements)])
         /\ last_response' = [endpoint |-> "context", status |-> 200]
  /\ UNCHANGED <<MAX_HISTORY_MESSAGES, SESSION_TTL_HOURS, now, req, pending,
                 turns>>

\* POST /chat/context
update_canvas_context(session_id, description, elements) ==
  /\ IF session_id \notin DOMAIN _sessions
       THEN /\ last_response' = [endpoint |-> "context", status |-> 404]
            /\ UNCHANGED heap
       ELSE LET obj == _sessions[session_id]
            IN  IF /\ description = NoDescription
                   /\ elements # NoElements
                   /\ \E i \in 1..Len(PySlice(elements, 0, 50)) :
                        GetTextRaises(elements[i])
                  THEN /\ last_response' =
                            [endpoint |-> "context", status |-> 500]
                       /\ UNCHANGED heap
                  ELSE /\ heap' = [heap EXCEPT ![obj].canvas_context =
                                     NewCanvasContext(@, description, elements)]
                       /\ last_response' =
                            [endpoint |-> "context", status |-> 200]
  /\ UNCHANGED <<MAX_HISTORY_MESSAGES, SESSION_TTL_HOURS, now, _sessions, req,
                 pending, turns>>

\* clear_session that resets the history only
clear_session_m(session_id) ==
  /\ IF session_id \in DOMAIN _sessions
       THEN /\ heap' = [heap EXCEPT ![_sessions[session_id]].messages = << >>]
            /\ last_response' = [endpoint |-> "clear", status |-> 200,
                                 message |-> "Session cleared"]
       ELSE /\ UNCHANGED heap
            /\ last_response' = [endpoint |-> "clear", status |-> 200,
                                 message |-> "Session not found (already clean)"]
  /\ UNCHANGED <<MAX_HISTORY_MESSAGES, SESSION_TTL_HOURS, now, _sessions, req,
                 pending, turns>>

\* POST /chat/clear
clear_session(session_id) ==
  /\ IF session_id \in DOMAIN _sessions
       THEN /\ heap' = [heap EXCEPT ![_sessions[session_id]] =
                          [@ EXCEPT !.messages = << >>,
                                    !.canvas_context = EMPTY_CANVAS]]
            /\ last_response' = [endpoint |-> "clear", status |-> 200,
                                 message |-> "Session cleared"]
       ELSE /\ UNCHANGED heap
            /\ last_response' = [endpoint |-> "clear", status |-> 200,
                                 message |-> "Session not found (already clean)"]
  /\ UNCHANGED <<MAX_HISTORY_MESSAGES, SESSION_TTL_HOURS, now, _sessions, req,
                 pending, turns>>

\* delete_session with del in place of pop: an unknown id raises KeyError
delete_session_m(session_id) ==
  /\ _sessions' = Remove(_sessions, {session_id})
  /\ heap' = Reclaim(heap, _sessions', req)
  /\ last_response' =
       [endpoint |-> "delete",
        status |-> IF session_id \in DOMAIN _sessions THEN 200 ELSE 500]
  /\ UNCHANGED <<MAX_HISTORY_MESSAGES, SESSION_TTL_HOURS, now, req, pending,
                 turns>>

\* DELETE /chat/session/{session_id}
delete_session(session_id) ==
  /\ _sessions' = Remove(_sessions, {session_id})
  /\ heap' = Reclaim(heap, _sessions', req)
  /\ last_response' = [endpoint |-> "delete", status |-> 200]
  /\ UNCHANGED <<MAX_HISTORY_MESSAGES, SESSION_TTL_HOURS, now, req, pending,
                 turns>>

\* Stale with >= in place of >
Stale_m(store, hp, cutoff, ttl_hours) ==
  { sid \in DOMAIN store :
      (cutoff - hp[store[sid]].last_active) * 3600 >= ttl_hours * 3600 }

\* the session ids _cleanup_stale_sessions removes at time cutoff
Stale(store, hp, cutoff, ttl_hours) ==
  { sid \in DOMAIN store :
      (cutoff - hp[store[sid]].last_active) * 3600 > ttl_hours * 3600 }

\* the store after _cleanup_stale_sessions, and its return value
_cleanup_stale_sessions(store, hp, cutoff, ttl_hours) ==
  LET stale == Stale(store, hp, cutoff, ttl_hours)
  IN  [store |-> Remove(store, stale), removed |-> Cardinality(stale)]

\* POST /admin/cleanup
admin_cleanup ==
  /\ LET c == _cleanup_stale_sessions(_sessions, heap, now, SESSION_TTL_HOURS)
     IN  /\ _sessions' = c.store
         /\ heap' = Reclaim(heap, _sessions', req)
         /\ last_response' = [endpoint |-> "cleanup", status |-> 200,
                              removed |-> c.removed,
                              remaining |-> Cardinality(DOMAIN c.store)]
  /\ UNCHANGED <<MAX_HISTORY_MESSAGES, SESSION_TTL_HOURS, now, req, pending,
                 turns>>

\* time passes
Tick ==
  /\ now < MaxTime
  /\ now' = now + 1
  /\ UNCHANGED <<MAX_HISTORY_MESSAGES, SESSION_TTL_HOURS, heap, _sessions, req,
                 pending, turns, last_response>>

(***************************************************************************)
(* The service: every operation, on small inputs.                          *)
(***************************************************************************)
MSG_HI == <<"h","i">>

MSG_DRAW == <<"D","r","a","w">>

MSG_UML == <<"u","m","l">>

MSG_SPEAK == <<"s","p","e","a","k">>

W_PHOTO == <<"p","h","o","t","o"," ","o","f">>

W_SKETCH == <<"t","u","r","n"," ","s","k","e","t","c","h">>

W_OCR == <<"O","C","R">>

MSG_PIE == <<"p","i","e"," ","c","h","a","r","t">>

RouteMessages ==
  {MSG_HI, MSG_DRAW, MSG_UML, MSG_PIE, MSG_SPEAK, W_PHOTO, W_SKETCH, W_OCR}

OUT_OK == <<"o","k">>

RAW_RECT == <<DOC_RECT>>

RAW_PROSE == <<"n","o">>

RAW_BADITEM == <<DOC_BADITEM>>

RAW_EMPTY == <<DOC_EMPTY>>

RAW_OBJECT == <<DOC_OBJECT>>

RAW_NULLTEXT == <<DOC_NULLTEXT>>

RAW_LABELLED == <<DOC_LABELLED>>

\* a reasoning block, then the document inside a markdown fence
RAW_FENCED ==
  THINK_OPEN \o <<"x">> \o THINK_CLOSE \o <<NL>> \o BACKTICKS
    \o <<"j","s","o","n",NL,DOC_RECT,NL>> \o BACKTICKS \o <<NL>>

RawOutputs ==
  {RAW_RECT, RAW_PROSE, RAW_BADITEM, RAW_EMPTY, RAW_OBJECT, RAW_NULLTEXT,
   RAW_LABELLED, RAW_FENCED}

EL_START == JObj([type |-> JStr(T_rectangle), text |-> JStr(T_Start)])

\* an element without text
EL_PLAIN == JObj([type |-> JStr(T_rectangle)])

\* an element whose text is blank
EL_BLANK == JObj([type |-> JStr(T_text), text |-> JStr(<<" ">>)])

\* an element without a type
EL_UNTYPED == JObj([text |-> JStr(T_Start)])

\* an element whose text is 200 characters long
EL_LONG == JObj([type |-> JStr(T_text), text |-> JStr([i \in 1..200 |-> "x"])])

\* the backend sends at most MaxChunks chunks with text, the last one
\* carrying the rest of its output
ChunkAllowed(r, k, rd) ==
  /\ k = 0 => rd # NoPayload /\ Len(req[r].reasoning_details_accum) < MaxChunks
  /\ k > 0 /\ Len(req[r].full_response_parts) + 1 >= MaxChunks
       => k = Len(pending[r])

(***************************************************************************)
(* Spec: overlapping /chat turns, with sessions cleared and deleted while  *)
(* the turns stream.                                                       *)
(***************************************************************************)
Init == InitWith({2}, {1})

Next ==
  \/ \E sid \in {Absent, "a"} :
       turns < MaxTurns /\ ChatStart(sid, MSG_HI, OUT_OK)
  \/ \E r \in Reqs : \E k \in 0..Len(pending[r]) :
       ChunkAllowed(r, k, NoPayload) /\ ChunkArrive(r, k, NoPayload)
  \/ \E r \in Reqs : StreamEnd(r)
  \/ \E r \in Reqs : ChatFail(r)
  \/ \E r \in Reqs : ChatTimeout(r)
  \/ \E r \in Reqs : Route(r)
  \/ \E sid \in {"a", "b"} : clear_session(sid)
  \/ \E sid \in {"a", "b"} : delete_session(sid)

Spec == Init /\ [][Next]_vars

(***************************************************************************)
(* SpecRoute: one turn at a time through both phases, for every kind of    *)
(* message and of structured output.                                       *)
(***************************************************************************)
NextRoute ==
  \/ \E sid \in {Absent, "a"}, m \in RouteMessages :
       /\ turns < RouteTurns
       /\ \A r \in Reqs : ~InFlight(req[r])
       /\ ChatStart(sid, m, OUT_OK)
  \/ \E k \in 0..Len(pending[1]) :
       ChunkAllowed(1, k, NoPayload) /\ ChunkArrive(1, k, NoPayload)
  \/ StreamEnd(1)
  \/ ChatFail(1)
  \/ ChatTimeout(1)
  \/ Route(1)
  \/ \E raw \in RawOutputs : CanvasReturn(1, raw)
  \/ CanvasFail(1)
  \/ CanvasTimeout(1)

SpecRoute == Init /\ [][NextRoute]_vars

(***************************************************************************)
(* SpecStore: the session store over time.  Turns run one at a time and    *)
(* the completion backend answers with an empty stream.                    *)
(***************************************************************************)
InitStore == InitWith({2}, {0, 1})

ContextUpdates ==
  { <<NoDescription, NoElements>>, <<<<"d">>, NoElements>>,
    <<NoDescription, <<EL_START>>>> }

NextStore ==
  \/ \E sid \in {Absent, "a"} :
       /\ turns < StoreTurns
       /\ \A r \in Reqs : ~InFlight(req[r])
       /\ ChatStart(sid, MSG_HI, << >>)
  \/ StreamEnd(1)
  \/ Route(1)
  \/ \E sid \in {"a", "b"} : \E u \in ContextUpdates :
       update_canvas_context(sid, u[1], u[2])
  \/ \E sid \in {"a", "b"} : clear_session(sid)
  \/ \E sid \in {"a", "b"} : delete_session(sid)
  \/ admin_cleanup
  \/ Tick

SpecStore == InitStore /\ [][NextStore]_vars

(***************************************************************************)
(* SpecContext: context updates with element lists of every small shape    *)
(* and of the lengths around the caps, on the session that one /chat turn   *)
(* creates, while and after that turn runs.                                *)
(***************************************************************************)
ElementKinds == {EL_START, EL_PLAIN, EL_BLANK, EL_UNTYPED, EL_LONG}

\* list lengths at and just past the caps of update_canvas_context: 20
\* text labels, 50 elements
CapLengths == {20, 21, 50, 51}

ElementLists ==
  UNION { [1..n -> ElementKinds] : n \in 1..MaxListLen }
    \cup { [i \in 1..n |-> IF i = n THEN last ELSE EL_START] :
             n \in CapLengths, last \in {EL_START, EL_BLANK} }

ContextInputs ==
  { <<NoDescription, NoElements>>, <<<<"d">>, NoElements>>,
    <<<<"d">>, <<EL_START>>>> }
    \cup { <<NoDescription, els>> : els \in ElementLists }

NextContext ==
  \/ "a" \notin DOMAIN _sessions /\ ChatStart("a", MSG_HI, << >>)
  \/ StreamEnd(1)
  \/ Route(1)
  \/ \E u \in ContextInputs : update_canvas_context("a", u[1], u[2])
  \/ clear_session("a")

SpecContext == Init /\ [][NextContext]_vars

(***************************************************************************)
(* SpecClassify: one turn whose message is a phrase of up to MaxWords      *)
(* words, each word a keyword of one tier or no keyword at all.            *)
(***************************************************************************)
\* the words, each with the tier whose keyword list holds it
Words ==
  { <<MSG_UML, "diagram">>, <<W_PHOTO, "image">>, <<W_SKETCH, "sketch">>,
    <<W_OCR, "ocr">>, <<MSG_SPEAK, "tts">>, <<MSG_DRAW, "draw">>,
    <<MSG_HI, "none">> }

WordLists == UNION { [1..n -> Words] : n \in 1..MaxWords }

\* the message made of the words of ws
Phrase(ws) == Join(<<" ">>, [i \in 1..Len(ws) |-> ws[i][1]])

NextClassify ==
  \/ \E ws \in WordLists :
       turns < 1 /\ ChatStart(Absent, Phrase(ws), << >>)
  \/ \E r \in Reqs : StreamEnd(r)
  \/ \E r \in Reqs : Route(r)
  \/ \E r \in Reqs : CanvasReturn(r, RAW_PROSE)

SpecClassify == Init /\ [][NextClassify]_vars

(***************************************************************************)
(* SpecIdle: the service while no delete request and no cleanup request is *)
(* issued.  Time passes and the event loop resumes a ready generator, so   *)
(* those steps are fair; lifespan starts no task that sweeps the store.    *)
(***************************************************************************)
NextIdle ==
  \/ \E sid \in {Absent, "a"} :
       /\ turns < IdleTurns
       /\ \A r \in Reqs : ~InFlight(req[r])
       /\ ChatStart(sid, MSG_HI, << >>)
  \/ StreamEnd(1)
  \/ Route(1)
  \/ \E u \in ContextUpdates : update_canvas_context("a", u[1], u[2])
  \/ clear_session("a")
  \/ Tick

SpecIdle ==
  /\ InitStore
  /\ [][NextIdle]_vars
  /\ WF_vars(Tick)
  /\ WF_vars(StreamEnd(1))
  /\ WF_vars(Route(1))

(***************************************************************************)
(* SpecFilter: one turn whose completion output is any text made of up to  *)
(* MaxSegs segments, cut into chunks at any character positions.           *)
(***************************************************************************)
Segments == {THINK_OPEN, THINK_CLOSE, <<"s">>, <<"x">>, <<NL>>}

\* an output with one reasoning span followed by the answer
OUT_HELLO == <<"H", "e", "l", "l", "o">>

OUT_THINK_HELLO ==
  THINK_OPEN \o <<"p", "l", "a", "n">> \o THINK_CLOSE \o OUT_HELLO

FilterTexts ==
  { Concat(ss) : ss \in UNION { [1..n -> Segments] : n \in 0..MaxSegs } }
    \cup {OUT_THINK_HELLO}

NextFilter ==
  \/ \E t \in FilterTexts : turns < 1 /\ ChatStart(Absent, MSG_HI, t)
  \/ \E k \in 1..Len(pending[1]) :
       ChunkAllowed(1, k, NoPayload) /\ ChunkArrive(1, k, NoPayload)
  \/ StreamEnd(1)
  \/ Route(1)

SpecFilter == Init /\ [][NextFilter]_vars

(***************************************************************************)
(* SpecHistory: many turns on one session, each completing or failing.     *)
(***************************************************************************)
NextHistory ==
  \/ turns < HistoryTurns /\ ChatStart("a", MSG_HI, << >>)
  \/ \E r \in Reqs : StreamEnd(r)
  \/ \E r \in Reqs : ChatFail(r)
  \/ \E r \in Reqs : ChatTimeout(r)
  \/ \E r \in Reqs : Route(r)

SpecHistory == Init /\ [][NextHistory]_vars

(***************************************************************************)
(* SpecLive: turns through both phases.  The event loop resumes a ready    *)
(* generator and fires an expired timeout, so those steps are fair; the    *)
(* backends are not: they may stay silent forever.                         *)
(***************************************************************************)
NextLive ==
  \/ \E m \in {MSG_HI, MSG_DRAW, MSG_UML} :
       turns < LiveTurns /\ ChatStart(Absent, m, OUT_OK)
  \/ \E r \in Reqs :
       ChunkAllowed(r, Len(pending[r]), NoPayload)
         /\ ChunkArrive(r, Len(pending[r]), NoPayload)
  \/ \E r \in Reqs : StreamEnd(r)
  \/ \E r \in Reqs : ChatFail(r)
  \/ \E r \in Reqs : ChatTimeout(r)
  \/ \E r \in Reqs : Route(r)
  \/ \E r \in Reqs : \E raw \in {RAW_RECT, RAW_PROSE} : CanvasReturn(r, raw)
  \/ \E r \in Reqs : CanvasFail(r)
  \/ \E r \in Reqs : CanvasTimeout(r)

SpecLive ==
  /\ Init
  /\ [][NextLive]_vars
  /\ \A r \in Reqs : WF_vars(ChatTimeout(r))
  /\ \A r \in Reqs : WF_vars(CanvasTimeout(r))
  /\ \A r \in Reqs : WF_vars(Route(r))


(***************************************************************************)
(* SpecWindow: turns on one session, in sequence and overlapping, under    *)
(* every configured history cap from 0 to MaxCap, with the canvas context  *)
(* replaced between turns.                                                 *)
(***************************************************************************)
InitWindow == InitWith(0..MaxCap, {1})

NextWindow ==
  \/ \E m \in {MSG_HI, MSG_SPEAK} :
       turns < WindowTurns /\ ChatStart("a", m, << >>)
  \/ \E r \in Reqs : StreamEnd(r)
  \/ \E r \in Reqs : ChatFail(r)
  \/ \E r \in Reqs : Route(r)
  \/ update_canvas_context("a", <<"d">>, NoElements)

SpecWindow == InitWindow /\ [][NextWindow]_vars

(***************************************************************************)
(* SpecRace: /chat requests on one session id that overlap, under a cap    *)
(* the history never reaches.  The event loop resumes a generator whose    *)
(* stream is exhausted, so StreamEnd and Route are fair.                   *)
(***************************************************************************)
InitRace == InitWith({2 * RaceTurns}, {1})

NextRace ==
  \/ \E m \in {MSG_HI, MSG_SPEAK} :
       turns < RaceTurns /\ ChatStart("a", m, OUT_OK)
  \/ \E r \in Reqs : \E k \in 1..Len(pending[r]) :
       ChunkAllowed(r, k, NoPayload) /\ ChunkArrive(r, k, NoPayload)
  \/ \E r \in Reqs : StreamEnd(r)
  \/ \E r \in Reqs : Route(r)

SpecRace ==
  /\ InitRace
  /\ [][NextRace]_vars
  /\ \A r \in Reqs : WF_vars(StreamEnd(r))
  /\ \A r \in Reqs : WF_vars(Route(r))

(***************************************************************************)
(* SpecReasoning: one turn whose chunks carry reasoning_details payloads,  *)
(* with or without text.                                                   *)
(***************************************************************************)
\* payloads that are strings
RD_TEXT == JStr(<<"r">>)

RD_MORE == JStr(<<"q">>)

\* a payload as OpenRouter documents it: a list of objects
RD_LIST == JList(<<JObj([text |-> JStr(<<"r">>)])>>)

\* a payload that is present and empty
RD_EMPTY == JStr(<< >>)

Payloads == {NoPayload, RD_TEXT, RD_MORE, RD_LIST, RD_EMPTY}

NextReasoning ==
  \/ \E m \in {MSG_HI, MSG_SPEAK} :
       turns < 1 /\ ChatStart(Absent, m, OUT_OK)
  \/ \E k \in 0..Len(pending[1]) : \E rd \in Payloads :
       ChunkAllowed(1, k, rd) /\ ChunkArrive(1, k, rd)
  \/ StreamEnd(1)
  \/ Route(1)

SpecReasoning == Init /\ [][NextReasoning]_vars

(***************************************************************************)
(* SpecOrphan: drawing turns on one session id that is deleted, or evicted *)
(* by the cleanup, while they run; the completion stream is empty.         *)
(***************************************************************************)
InitOrphan == InitWith({2}, {0})

NextOrphan ==
  \/ turns < OrphanTurns /\ ChatStart("a", MSG_DRAW, << >>)
  \/ \E r \in Reqs : StreamEnd(r)
  \/ \E r \in Reqs : ChatFail(r)
  \/ \E r \in Reqs : ChatTimeout(r)
  \/ \E r \in Reqs : Route(r)
  \/ \E r \in Reqs : CanvasReturn(r, RAW_RECT)
  \/ \E r \in Reqs : CanvasFail(r)
  \/ \E r \in Reqs : CanvasTimeout(r)
  \/ delete_session("a")
  \/ admin_cleanup
  \/ Tick

SpecOrphan == InitOrphan /\ [][NextOrphan]_vars
(***************************************************************************)
(* Properties.                                                             *)
(***************************************************************************)
TypeOK ==
  /\ now \in 0..MaxTime
  /\ \A sid \in DOMAIN _sessions : _sessions[sid] \in DOMAIN heap

\* the stored history of the session named sid
History(sid) == heap[_sessions[sid]].messages

\* the whole output of the completion backend for the turn in slot r
Source(r) == Concat(req[r].full_response_parts) \o pending[r]

\* the types of the events of a stream, in order
StreamTypes(out) == [i \in 1..Len(Events(out)) |-> Events(out)[i].type]

IsAction(type) == type \in {"canvas_action", "tool_action"}

\* the concatenation of the texts of the token events of a stream
TokenText(out) ==
  LET toks == SelectSeq(out, LAMBDA e : e.type = "token")
  IN  Concat([i \in 1..Len(toks) |-> toks[i].token])

\* the positions at which p occurs in t
Occurrences(t, p) ==
  { i \in 1..(Len(t) - Len(p) + 1) : SubSeq(t, i, i + Len(p) - 1) = p }

\* position i of t follows an open marker with no close marker in between
InThinkSpan(t, i) ==
  \E p \in Occurrences(t, THINK_OPEN) :
    /\ p + Len(THINK_OPEN) <= i
    /\ \A q \in Occurrences(t, THINK_CLOSE) :
         ~(p + Len(THINK_OPEN) <= q /\ q + Len(THINK_CLOSE) <= i)

\* the reasoning character "s" occurs in t, and only inside reasoning spans
ReasoningIsMarked(t) ==
  /\ \E i \in 1..Len(t) : t[i] = "s"
  /\ \A i \in 1..Len(t) : t[i] = "s" => InThinkSpan(t, i)

HasChar(t, c) == \E i \in 1..Len(t) : t[i] = c

\* C1: for every session of the store, after any sequence of /chat turns
\* (completed, failed or timed out, in sequence or overlapping), the number
\* of stored messages is at most 2 x MAX_HISTORY_MESSAGES.
C1_HistoryBound ==
  \A sid \in DOMAIN _sessions : Len(History(sid)) <= 2 * MAX_HISTORY_MESSAGES

\* C2: text between <think> and </think>, or after an unclosed <think>, is
\* delivered in no token event and not in the content of the done event,
\* for any split of the output into chunks.
C2_NoReasoningDelivered ==
  \A r \in Reqs :
    req[r].pc \in {"streaming", "assembled"} /\ ReasoningIsMarked(Source(r))
      => \A i \in 1..Len(req[r].out) :
           LET e == req[r].out[i]
           IN  /\ e.type = "token" => ~HasChar(e.token, "s")
               /\ e.type = "done" => ~HasChar(e.html[2], "s")

\* C3: when the output holds exactly one well-formed <think>...</think>
\* pair, the concatenation of the emitted token texts equals the output
\* with the span from <think> through </think> removed, for every placement
\* of the chunk boundaries.
C3_FilterRemovesSpan ==
  \A r \in Reqs :
    LET t == Source(r)
        opens == Occurrences(t, THINK_OPEN)
        closes == Occurrences(t, THINK_CLOSE)
    IN  /\ req[r].pc = "assembled"
        /\ Cardinality(opens) = 1
        /\ Cardinality(closes) = 1
        /\ SetMin(opens) + Len(THINK_OPEN) <= SetMin(closes)
        => TokenText(req[r].out)
             = SubSeq(t, 1, SetMin(opens) - 1)
                 \o SubSeq(t, SetMin(closes) + Len(THINK_CLOSE), Len(t))

\* C4 as stated: every closed /chat stream is zero or more token events,
\* then exactly one done event, then at most one action event, and nothing
\* else.
C4_Original ==
  \A r \in Reqs :
    req[r].pc = "closed" =>
      LET ts == StreamTypes(req[r].out)
      IN  \E n \in 0..Len(ts) :
            /\ \A i \in 1..n : ts[i] = "token"
            /\ Len(ts) \in {n + 1, n + 2}
            /\ ts[n + 1] = "done"
            /\ Len(ts) = n + 2 => IsAction(ts[n + 2])

\* C4 (amended): every /chat stream is zero or more token events, then at
\* most one done event, then at most one follow-up event, which is an action
\* event (canvas_action or tool_action) or an error event; a closed stream
\* without a done event ends with exactly one error event; no token event
\* follows the done event and no action event precedes it.
C4_StreamShape ==
  \A r \in Reqs :
    LET ts == StreamTypes(req[r].out)
    IN  \E n \in 0..Len(ts) :
          /\ \A i \in 1..n : ts[i] = "token"
          /\ CASE req[r].pc = "streaming" -> Len(ts) = n
               [] req[r].pc \in {"assembled", "drawing"} ->
                    Len(ts) = n + 1 /\ ts[n + 1] = "done"
               [] req[r].pc = "closed" ->
                    \/ Len(ts) = n + 1 /\ ts[n + 1] \in {"done", "error"}
                    \/ /\ Len(ts) = n + 2
                       /\ ts[n + 1] = "done"
                       /\ IsAction(ts[n + 2]) \/ ts[n + 2] = "error"
               [] OTHER -> Len(ts) = 0

C4_Witness ==
  \E r \in Reqs :
    /\ req[r].pc = "closed"
    /\ StreamTypes(req[r].out) = <<"token", "done", "canvas_action">>

\* C5: when the completion backend fails or times out in phase 1, the
\* session's history after the turn is identical to its history before the
\* turn.
C5_FailedTurnLeavesNoMessage ==
  [][\A r \in Reqs :
       (ChatFail(r) \/ ChatTimeout(r)) /\ req[r].session \in DOMAIN heap'
         => heap'[req[r].session].messages = req[r].before]_vars

\* C6: every /chat stream eventually terminates, and when a timeout fires
\* the stream is closed by one error event that carries the session id.
C6_StreamTerminates ==
  /\ \A r \in Reqs : InFlight(req[r]) ~> (req[r].pc = "closed")
  /\ [][\A r \in Reqs :
          ChatTimeout(r) \/ CanvasTimeout(r)
            => LET out == Events(req'[r].out)
               IN  /\ req'[r].pc = "closed"
                   /\ out[Len(out)] = ErrorEvent(TIMEOUT_MESSAGE, req[r].session_id)
                   /\ Cardinality({ i \in 1..Len(out) : out[i].type = "error" }) = 1
                   /\ out[Len(out)].session_id = req[r].session_id]_vars

C6_Witness ==
  \E r \in Reqs :
    /\ req[r].pc = "closed"
    /\ Len(req[r].out) >= 3
    /\ req[r].out[Len(req[r].out)] = ErrorEvent(TIMEOUT_MESSAGE, req[r].session_id)
    /\ req[r].out[Len(req[r].out) - 1].type = "done"

\* C7: immediately after clear on a known session, whatever its history and
\* context were, the history is empty and the context equals the
\* empty-canvas sentinel of a freshly created session.
C7_ClearResets ==
  [][\A sid \in {"a", "b"} :
       clear_session(sid) /\ sid \in DOMAIN _sessions
         => /\ heap'[_sessions'[sid]].messages = << >>
            /\ heap'[_sessions'[sid]].canvas_context
                 = ChatSession(sid, now).canvas_context]_vars

C7_Witness ==
  /\ last_response = [endpoint |-> "clear", status |-> 200,
                      message |-> "Session cleared"]
  /\ "a" \in DOMAIN _sessions
  /\ History("a") = << >>
  /\ heap[_sessions["a"]].canvas_context = EMPTY_CANVAS
  /\ turns = StoreTurns

\* the effect of a /chat request that names the known session sid
C8_ExistingReturned(sid) ==
  /\ _sessions' = _sessions
  /\ heap'[_sessions[sid]].messages
       = Append(History(sid), HumanMessage(MSG_HI))
  /\ heap'[_sessions[sid]].canvas_context = heap[_sessions[sid]].canvas_context

\* the effect of a /chat request that creates a session under the id new
C8_Created(new) ==
  /\ new \notin DOMAIN _sessions
  /\ DOMAIN _sessions' = DOMAIN _sessions \cup {new}
  /\ \A o \in DOMAIN _sessions : _sessions'[o] = _sessions[o]
  /\ _sessions'[new] \notin DOMAIN heap
  /\ heap'[_sessions'[new]].messages = <<HumanMessage(MSG_HI)>>
  /\ heap'[_sessions'[new]].canvas_context = EMPTY_CANVAS

\* C8 as stated: a /chat request whose session id is absent or not in the
\* store creates a fresh session under a newly generated id, not the
\* supplied one; a request whose id is in the store gets the existing
\* session, unchanged, and creates none.
C8_Original ==
  [][\A sid \in {Absent, "a"} :
       turns' = turns + 1 /\ ChatStart(sid, MSG_HI, << >>)
         => IF sid = Absent \/ sid \notin DOMAIN _sessions
              THEN \E new \in DOMAIN _sessions' : new # sid /\ C8_Created(new)
              ELSE C8_ExistingReturned(sid)]_vars

\* C8 (amended): when the session id is absent, a fresh session with empty
\* history is created under a newly generated id; when an id is supplied
\* that is not in the store, the fresh session is created under the
\* supplied id; when the supplied id is in the store, the existing session
\* is used with its prior history and context kept, and none is created.
C8_GetOrCreate ==
  [][\A sid \in {Absent, "a"} :
       turns' = turns + 1 /\ ChatStart(sid, MSG_HI, << >>)
         => IF sid = Absent
              THEN \E new \in DOMAIN _sessions' : new # Absent /\ C8_Created(new)
              ELSE IF sid \notin DOMAIN _sessions
                THEN C8_Created(sid)
                ELSE C8_ExistingReturned(sid)]_vars

C8_Witness ==
  /\ req[1].pc = "streaming"
  /\ req[1].session_id = "a"
  /\ req[1].before = << >>
  /\ {"a", "u1"} \subseteq DOMAIN _sessions
  /\ History("u1") # << >>

\* C9: deleting a session id removes it from the store whether or not it
\* was present, never raises, leaves every other session untouched, and
\* deleting an id that is already gone changes nothing.
C9_DeleteIdempotent ==
  [][\A sid \in {"a", "b"} :
       delete_session(sid)
         => /\ sid \notin DOMAIN _sessions'
            /\ last_response'.status = 200
            /\ DOMAIN _sessions' = DOMAIN _sessions \ {sid}
            /\ \A o \in DOMAIN _sessions' :
                 /\ _sessions'[o] = _sessions[o]
                 /\ heap'[_sessions'[o]] = heap[_sessions[o]]
            /\ sid \notin DOMAIN _sessions
                 => _sessions' = _sessions /\ heap' = heap /\ req' = req]_vars

C9_Witness ==
  /\ last_response = [endpoint |-> "delete", status |-> 200]
  /\ "a" \notin DOMAIN _sessions
  /\ "u1" \in DOMAIN _sessions
  /\ History("u1") # << >>

\* C10: cleanup removes exactly the sessions whose last activity is older
\* than the TTL, keeps every other session unchanged and returns the number
\* of sessions removed; afterwards no session of the store is older than
\* the TTL.
C10_EvictStale ==
  [][admin_cleanup
       => LET older(hp, store, sid) ==
                now - hp[store[sid]].last_active > SESSION_TTL_HOURS
          IN  /\ DOMAIN _sessions'
                   = { sid \in DOMAIN _sessions : ~older(heap, _sessions, sid) }
              /\ \A sid \in DOMAIN _sessions' :
                   /\ _sessions'[sid] = _sessions[sid]
                   /\ heap'[_sessions'[sid]] = heap[_sessions[sid]]
                   /\ ~older(heap', _sessions', sid)
              /\ last_response'.removed
                   = Cardinality(DOMAIN _sessions \ DOMAIN _sessions')]_vars

C10_Witness ==
  /\ last_response.endpoint = "cleanup"
  /\ last_response.removed = 1
  /\ last_response.remaining = 1
  /\ \E sid \in DOMAIN _sessions :
       now - heap[_sessions[sid]].last_active = SESSION_TTL_HOURS

\* C11: with TTL = 0 and a store holding exactly one session, of any age
\* including one whose last activity is at the current instant, eviction
\* returns 1 and the store is empty afterwards.
C11_ZeroTTLEvictsAll ==
  [][admin_cleanup /\ SESSION_TTL_HOURS = 0 /\ Cardinality(DOMAIN _sessions) = 1
       => /\ last_response'.removed = 1
          /\ _sessions' = EmptyMap]_vars

\* C12: context-update and clear addressed to a session id that is not in
\* the store create no session and change no existing session's history,
\* context or timestamps; context-update answers 404 and clear answers
\* success.
C12_UnknownSessionUntouched ==
  [][\A sid \in {"a", "b"} :
       sid \notin DOMAIN _sessions
         => /\ (\E u \in ContextUpdates : update_canvas_context(sid, u[1], u[2]))
                 => /\ _sessions' = _sessions
                    /\ heap' = heap
                    /\ last_response' = [endpoint |-> "context", status |-> 404]
            /\ clear_session(sid)
                 => /\ _sessions' = _sessions
                    /\ heap' = heap
                    /\ last_response'.status = 200]_vars

C12_Witness ==
  /\ last_response = [endpoint |-> "context", status |-> 404]
  /\ DOMAIN _sessions = {"a"}
  /\ History("a") # << >>
  /\ heap[_sessions["a"]].canvas_context # EMPTY_CANVAS
  /\ now > heap[_sessions["a"]].last_active

\* C13: calling context-update twice in a row on the same session with the
\* same element list leaves the same context string as calling it once,
\* whatever the context was before the first call.
C13_UpdateIdempotent ==
  \A sid \in DOMAIN _sessions : \A u \in ContextInputs :
    u[2] # NoElements
      => LET before == heap[_sessions[sid]].canvas_context
             once == NewCanvasContext(before, u[1], u[2])
             twice == NewCanvasContext(once, u[1], u[2])
         IN  twice = once

C13_Witness ==
  /\ last_response = [endpoint |-> "context", status |-> 200]
  /\ "a" \in DOMAIN _sessions
  /\ History("a") # << >>
  /\ heap[_sessions["a"]].canvas_context
       = <<"The whiteboard currently has ", "1",
           " shape(s)/element(s) drawn by the user: ",
           "1", " ", "u", "n", "k", "n", "o", "w", "n", "(s)", ".\n",
           "Text content written on the whiteboard:\n",
           "- ", "u", "n", "k", "n", "o", "w", "n", ": \"",
           "S", "t", "a", "r", "t", "\"">>

\* the context begins by reporting n elements
ReportsTotal(ctx, n) ==
  LET head == <<"The whiteboard currently has ">> \o IntStr(n)
                \o <<" shape(s)/element(s) drawn by the user: ">>
  IN  Len(ctx) >= Len(head) /\ SubSeq(ctx, 1, Len(head)) = head

\* the context reports n elements of the given type, as one item of the
\* list of counts
ReportsCount(ctx, n, type) ==
  \E p \in Occurrences(ctx, IntStr(n) \o <<" ">> \o Render(type) \o <<"(s)">>) :
    /\ p > 1
    /\ \/ ctx[p - 1] = " shape(s)/element(s) drawn by the user: "
       \/ p > 2 /\ ctx[p - 1] = " " /\ ctx[p - 2] = ","

\* the entry of the text list for the element el
EntryOf(el) ==
  <<"- ">> \o Render(ElementType(el)) \o <<": \"">> \o ElementText(el)
    \o <<"\"">>

\* the number of entries of the text list of the context
EntryCount(ctx) == Cardinality({ i \in 1..Len(ctx) : ctx[i] = "- " })

\* the context for two rectangles of which only the first has text "Start"
TWO_RECTANGLES_CONTEXT ==
  <<"The whiteboard currently has ", "2",
    " shape(s)/element(s) drawn by the user: ",
    "2", " ", "r", "e", "c", "t", "a", "n", "g", "l", "e", "(s)", ".\n",
    "Text content written on the whiteboard:\n",
    "- ", "r", "e", "c", "t", "a", "n", "g", "l", "e", ": \"",
    "S", "t", "a", "r", "t", "\"">>

TierOrder == <<"diagram", "image", "sketch", "ocr", "tts", "draw", "none">>

TierRank(tier) == CHOOSE i \in 1..Len(TierOrder) : TierOrder[i] = tier

\* the earliest tier, in that order, among the tiers of the words of ws
EarliestTier(ws) ==
  TierOrder[SetMin({ TierRank(ws[i][2]) : i \in 1..Len(ws) })]

\* C15: classify is a total, deterministic function of the message text
\* that checks the tiers in the fixed order Diagram, Image, Sketch, OCR,
\* TTS, then Draw, then None, and returns the first tier with a matching
\* keyword: a text with both a Diagram keyword and a Draw keyword yields
\* Diagram, and a text matching several specific tiers yields the earliest
\* of them.
C15_TierPriority ==
  \A r \in Reqs :
    req[r].pc \in {"streaming", "assembled", "drawing"}
      => /\ \E i \in 1..Len(TierOrder) : req[r].tool_intent.tool = TierOrder[i]
         /\ \A ws \in WordLists :
              req[r].message = Phrase(ws)
                => req[r].tool_intent.tool = EarliestTier(ws)
         /\ \A q \in Reqs :
              req[q].pc \in {"streaming", "assembled", "drawing"}
                /\ req[q].message = req[r].message
                => req[q].tool_intent = req[r].tool_intent

C15_Witness ==
  \E r \in Reqs :
    /\ req[r].pc = "assembled"
    /\ req[r].message = Phrase(<< <<MSG_DRAW, "draw">>, <<MSG_UML, "diagram">> >>)
    /\ req[r].tool_intent.tool = "diagram"

\* C16: parse returns None for input that does not decode, for input that
\* decodes to something other than a list, and for an empty list; for a
\* list with one item that has only a type it returns a one-element list
\* whose element has default values for both its position fields (x, y)
\* and its size fields (width, height).
C16_ParseDefaults ==
  [][\A raw \in RawOutputs :
       CanvasReturn(1, raw)
         => LET elements == parse_canvas_json(raw)
            IN  /\ raw \in {RAW_PROSE, RAW_OBJECT, RAW_EMPTY} => elements = JNull
                /\ raw = RAW_RECT
                     => /\ elements # JNull
                        /\ Len(elements.v) = 1
                        /\ {"x", "y", "width", "height"}
                             \subseteq DOMAIN elements.v[1].v]_vars

\* the verdicts that name a tool of the client
ToolTiers == {"diagram", "image", "sketch", "ocr", "tts"}

\* C17: when the classifier's verdict for the turn is Diagram, Image,
\* Sketch, OCR or TTS, phase 2 emits exactly one tool_action event that
\* carries that tool tag (with the style for Diagram and the clean response
\* text for TTS), never invokes the structured-generation backend, emits no
\* canvas_action event, and leaves the session context unchanged.
C17_ToolDispatch ==
  [][Route(1) /\ req[1].tool_intent.tool \in ToolTiers
       => LET q == req[1]
              out == req'[1].out
              e == out[Len(out)]
          IN  /\ req'[1].pc = "closed"
              /\ out = Append(q.out, e)
              /\ e.type = "tool_action"
              /\ e.tool = q.tool_intent.tool
              /\ e.prompt = q.message
              /\ DOMAIN e = {"type", "tool", "prompt"}
                   \cup (IF e.tool = "diagram" THEN {"style"} ELSE {})
                   \cup (IF e.tool = "tts" THEN {"text"} ELSE {})
              /\ e.tool = "diagram" => e.style = q.tool_intent.style
              /\ q.message = MSG_PIE => e.style = "pie"
              /\ e.tool = "tts" => e.text = q.clean_response
              /\ \A i \in 1..Len(out) : out[i].type # "canvas_action"
              /\ heap' = heap]_vars

C17_Witness ==
  /\ req[1].pc = "closed"
  /\ Len(req[1].out) >= 2
  /\ req[1].out[Len(req[1].out) - 1].type = "done"
  /\ req[1].out[Len(req[1].out)]
       = [type |-> "tool_action", tool |-> "tts", prompt |-> MSG_SPEAK,
          text |-> OUT_OK]

\* C18: when the verdict is Draw: if the parser returns a list of elements,
\* a summary of those elements is appended to the session context and
\* exactly one canvas_action event carrying them is emitted; if the parser
\* returns None, no event is emitted after the done event and the session
\* context is left unchanged.
C18_DrawOutcome ==
  [][\A raw \in RawOutputs :
       CanvasReturn(1, raw)
         => LET q == req[1]
                elements == parse_canvas_json(raw)
                before == heap[q.session].canvas_context
                after == heap'[q.session].canvas_context
            IN  IF elements = JNull
                  THEN req'[1].out = q.out /\ after = before
                  ELSE /\ req'[1].out = Append(q.out, CanvasActionEvent(elements.v))
                       /\ Len(after) > Len(before)
                       /\ SubSeq(after, 1, Len(before)) = before]_vars

\* C19: malformed structured-backend output never becomes a user-visible
\* error: whether the output fails to decode or items of the decoded list
\* fail validation and are kept as raw data (including items that are not
\* objects or whose text is null), the /chat stream emits no error event
\* for that turn.
C19_MalformedOutputIsSilent ==
  [][\A raw \in RawOutputs :
       CanvasReturn(1, raw)
         => \A i \in 1..Len(req'[1].out) : req'[1].out[i].type # "error"]_vars

\* the session named sid has been idle longer than the TTL
IdleBeyondTTL(sid) ==
  /\ sid \in DOMAIN _sessions
  /\ now - heap[_sessions[sid]].last_active > SESSION_TTL_HOURS

\* C20: a session that stays idle longer than the TTL is eventually removed
\* from the store by a periodic background sweep, without any delete
\* request or administrative cleanup trigger being issued.
C20_IdleSessionSwept ==
  \A sid \in {"a", "u1", "u2"} :
    IdleBeyondTTL(sid) ~> (sid \notin DOMAIN _sessions)

\* s is a contiguous trailing window of t, in t's order
IsTrailingWindow(s, t) ==
  Len(s) <= Len(t) /\ s = SubSeq(t, Len(t) - Len(s) + 1, Len(t))

\* C21: the history window handed to the completion backend is a
\* contiguous, order-preserving trailing window of the messages stored
\* before this turn, holds at most MAX_HISTORY_MESSAGES messages and does
\* not contain the user message appended by this turn; the augmented input
\* carries the session's context string as it is at the moment of the call.
C21_HistoryWindow ==
  [][\A r \in Reqs :
       req[r].pc # "streaming" /\ req'[r].pc = "streaming"
         => LET q == req'[r]
                window == q.chain_input.history
                stored == heap'[q.session].messages
            IN  /\ IsTrailingWindow(window, q.before)
                /\ Len(window) <= MAX_HISTORY_MESSAGES
                /\ stored = Append(q.before, HumanMessage(q.message))
                /\ q.chain_input.canvas_context
                     = heap'[q.session].canvas_context
                /\ q.chain_input.input
                     = <<"[SYSTEM NOTE: Current Live Canvas Context]\n">>
                         \o heap'[q.session].canvas_context
                         \o <<"\n\n", "[User Request]\n">> \o q.message]_vars

\* C22: the clean response stored as the assistant message and rendered
\* into the done event equals the concatenation of all raw chunks of the
\* turn with every <think>...</think> span removed, however the output was
\* split into chunks; for an output that concatenates to
\* <think>plan</think>Hello the stored response is Hello and the token
\* events carry only Hello.
C22_CleanResponse ==
  \A r \in Reqs :
    req[r].pc = "assembled"
      => LET q == req[r]
             clean == ThinkPatternSub(Source(r))
             stored == heap[q.session].messages
             done == SelectSeq(q.out, LAMBDA e : e.type = "done")
         IN  /\ stored[Len(stored)].role = "ai"
             /\ stored[Len(stored)].content = clean
             /\ Len(done) = 1 /\ done[1].html = md_to_html(clean)
             /\ Source(r) = OUT_THINK_HELLO
                  => clean = OUT_HELLO /\ TokenText(q.out) = OUT_HELLO

\* the chunk consumed by a step of the streaming loop of slot r
ChunkOf(r) == SubSeq(pending[r], 1, Len(pending[r]) - Len(pending'[r]))

\* C23: in state NORMAL, a chunk that contains the open marker moves the
\* filter to INSIDE_BLOCK and the part of that chunk before the marker is
\* emitted unmodified as a token event; in state INSIDE_BLOCK, a chunk that
\* contains the close marker moves the filter back to NORMAL and only the
\* part after the marker is emitted, and only when it is non-empty after
\* trimming.
C23_FilterTransitions ==
  [][\A r \in Reqs :
       req[r].pc = "streaming" /\ req'[r].pc = "streaming"
         /\ pending'[r] # pending[r]
         => LET token == ChunkOf(r)
                prefix == SubSeq(token, 1, Find(token, THINK_OPEN, 1) - 1)
                after == AfterFirst(token, THINK_CLOSE)
            IN  /\ ~req[r].inside_think /\ Contains(token, THINK_OPEN)
                     => /\ req'[r].inside_think
                        /\ req'[r].out
                             = req[r].out
                                 \o IF prefix # << >>
                                      THEN <<TokenEvent(prefix)>> ELSE << >>
                /\ req[r].inside_think /\ Contains(token, THINK_CLOSE)
                     => /\ ~req'[r].inside_think
                        /\ req'[r].out
                             = req[r].out
                                 \o IF Strip(after) # << >>
                                      THEN <<TokenEvent(after)>>
                                      ELSE << >>]_vars

\* C24: immediately after every assistant-append followed by trim, the
\* history holds at most MAX_HISTORY_MESSAGES messages, and they are
\* exactly the most recent messages in their original order: trimming drops
\* only the oldest messages and never reorders or drops a newer message
\* while keeping an older one.
C24_TrimKeepsMostRecent ==
  [][\A r \in Reqs :
       req[r].pc = "streaming" /\ req'[r].pc = "assembled"
         => LET old == heap[req[r].session].messages
                new == heap'[req[r].session].messages
                appended == Append(old, new[Len(new)])
            IN  /\ new # << >> /\ new[Len(new)].role = "ai"
                /\ new[Len(new)].content = req'[r].clean_response
                /\ Len(new) <= MAX_HISTORY_MESSAGES
                /\ IsTrailingWindow(new, appended)
                /\ Len(new) = SetMin({Len(appended), MAX_HISTORY_MESSAGES})]_vars

\* C25: session lookup-and-create is atomic with respect to other requests:
\* when a /chat request is accepted, its session is the one the store holds
\* under its id; a session is created only when the id was not in the
\* store, and then exactly one; every request in flight on the same stored
\* session keeps operating on that same session; and the messages stored
\* before are all kept, the request's user message being appended to them.
C25_AtomicGetOrCreate ==
  [][\A r \in Reqs :
       req[r].pc # "streaming" /\ req'[r].pc = "streaming"
         => LET q == req'[r]
                sid == q.session_id
            IN  /\ sid \in DOMAIN _sessions' /\ _sessions'[sid] = q.session
                /\ \A o \in DOMAIN _sessions :
                     o \in DOMAIN _sessions' /\ _sessions'[o] = _sessions[o]
                /\ IF sid \in DOMAIN _sessions
                     THEN /\ _sessions' = _sessions
                          /\ heap'[q.session].messages
                               = Append(heap[q.session].messages,
                                        HumanMessage(q.message))
                     ELSE /\ DOMAIN _sessions' = DOMAIN _sessions \cup {sid}
                          /\ q.session \notin DOMAIN heap
                          /\ heap'[q.session].messages
                               = <<HumanMessage(q.message)>>
                /\ \A o \in Reqs \ {r} :
                     /\ InFlight(req[o]) /\ req[o].session_id = sid
                     /\ sid \in DOMAIN _sessions
                     /\ _sessions[sid] = req[o].session
                     => req'[o] = req[o] /\ req'[o].session = q.session]_vars

\* two requests on the same new id are streaming at once
C25_Witness ==
  /\ req[1].pc = "streaming" /\ req[2].pc = "streaming"
  /\ req[1].session_id = "a" /\ req[2].session_id = "a"
  /\ req[1].before = << >> /\ req[2].before = <<HumanMessage(MSG_HI)>>
  /\ req[1].session = req[2].session
  /\ _sessions["a"] = req[1].session
  /\ Cardinality(DOMAIN heap) = 1
  /\ History("a") = <<HumanMessage(MSG_HI), HumanMessage(MSG_HI)>>

\* the stream of slot r has reached its done event
Completed(r) == \E i \in 1..Len(req[r].out) : req[r].out[i].type = "done"

\* the number of messages of h that satisfy Test
CountOf(h, Test(_)) == Len(SelectSeq(h, Test))

\* two requests on session "a" overlapped, both have completed, and a
\* message one of them appended is not in the stored history
C26_LostUpdate ==
  /\ turns = 2 /\ Completed(1) /\ Completed(2)
  /\ "a" \in DOMAIN _sessions
  /\ \/ CountOf(History("a"), LAMBDA m : m.role = "human") < 2
     \/ CountOf(History("a"), LAMBDA m : m.role = "ai") < 2

\* C26 as stated: two concurrent /chat requests on the same session id can
\* interleave so that an update is lost: with the history below the cap
\* throughout, a state is reached, once both have completed, in which a
\* message appended by one of the two is missing from the stored history.
C26_Original == <>C26_LostUpdate

\* C26 (amended): two concurrent /chat requests on the same session id
\* interleave across await points (both user messages can be stored before
\* either assistant message), but no update is lost: with the history
\* below the cap throughout, every user message of an accepted request and
\* the assistant message of every completed request are in the stored
\* history.
C26_NoLostUpdate ==
  "a" \in DOMAIN _sessions
    => LET h == History("a")
       IN  /\ Len(h) <= MAX_HISTORY_MESSAGES
           /\ CountOf(h, LAMBDA m : m.role = "human") = turns
           /\ \A msg \in {MSG_HI, MSG_SPEAK} :
                CountOf(h, LAMBDA m : m = HumanMessage(msg))
                  >= Cardinality({ r \in Reqs : InFlight(req[r])
                                                  /\ req[r].message = msg })
           /\ CountOf(h, LAMBDA m : m = AIMessage(OUT_OK, << >>))
                >= Cardinality({ r \in Reqs : Completed(r) })

\* both requests were accepted before either completed, and both completed
C26_Witness ==
  /\ Completed(1) /\ Completed(2)
  /\ History("a") = <<HumanMessage(MSG_HI), HumanMessage(MSG_SPEAK),
                      AIMessage(OUT_OK, << >>), AIMessage(OUT_OK, << >>)>>

\* the Python value of a payload, as the chunk carries it
Verbatim(rd) == IF rd.j = "str" THEN rd.v ELSE rd

\* the texts an event delivers to the client
EventTexts(e) ==
  IF e.type = "comment" THEN {}
  ELSE { e[f] : f \in DOMAIN e \cap {"token", "prompt", "text"} }
         \cup (IF "html" \in DOMAIN e THEN {e.html[2]} ELSE {})

\* C27: the side-channel payload attached to the stored assistant message
\* is the in-order accumulation of every side-channel payload received on
\* the turn's chunks, unmodified, including payloads on chunks whose text is
\* empty; no side channel is attached when none was received; and no
\* side-channel payload appears in any emitted token, done or action event.
C27_ReasoningRoundTrip ==
  [][/\ \A k \in 0..Len(pending[1]) : \A rd \in Payloads :
          req[1].pc = "streaming" /\ ChunkArrive(1, k, rd)
            => req'[1].reasoning_details_accum
                 = IF PyTruthy(rd)
                     THEN Append(req[1].reasoning_details_accum, Verbatim(rd))
                     ELSE req[1].reasoning_details_accum
     /\ req[1].pc = "streaming" /\ req'[1].pc = "assembled"
          => LET stored == heap'[req[1].session].messages
                 ai_msg == stored[Len(stored)]
                 received == req[1].reasoning_details_accum
             IN  /\ ai_msg.role = "ai"
                 /\ ai_msg.additional_kwargs
                      = IF received = << >> THEN << >>
                        ELSE << <<"reasoning_details", Concat(received)>> >>
     /\ \A i \in 1..Len(req'[1].out) : \A t \in EventTexts(req'[1].out[i]) :
          ~HasChar(t, "r") /\ ~HasChar(t, "q")]_vars

\* the positions of the events of a stream that carry done = true
TerminalEvents(out) ==
  { i \in 1..Len(out) : "done" \in DOMAIN out[i] /\ out[i].done }

\* C28: every /chat response stream contains exactly one event with
\* done = true: either one done event or one error event, never both and
\* never neither, also when the failure or timeout happens in phase 2,
\* after the done event has been emitted.
C28_OneTerminalEvent ==
  \A r \in Reqs :
    req[r].pc = "closed" => Cardinality(TerminalEvents(req[r].out)) = 1

\* C29: in every reachable state, every session's history alternates roles
\* starting with a user message: each assistant message is immediately
\* preceded by a user message and no two user messages are adjacent, across
\* failed turns, overlapping turns on the same session, trimming, and a
\* clear issued while a turn is still streaming.
C29_RolesAlternate ==
  \A sid \in DOMAIN _sessions :
    \A i \in 1..Len(History(sid)) :
      History(sid)[i].role = IF i % 2 = 1 THEN "human" ELSE "ai"

\* C30: completing, failing or timing out a /chat stream never adds or
\* removes a store entry, and changes no session but the turn's own: a
\* session deleted or evicted while its turn is still streaming stays
\* absent from the store after the turn finishes, and a later /chat request
\* with the same id starts from an empty history.
C30_StreamLeavesStore ==
  [][\A r \in Reqs :
       /\ InFlight(req[r]) /\ req'[r] # req[r]
            => /\ _sessions' = _sessions
               /\ \A sid \in DOMAIN _sessions :
                    _sessions[sid] # req[r].session
                      => heap'[_sessions[sid]] = heap[_sessions[sid]]
       /\ ~InFlight(req[r]) /\ req'[r].pc = "streaming"
            /\ req'[r].session_id \notin DOMAIN _sessions
            => /\ req'[r].before = << >>
               /\ req'[r].chain_input.history = << >>
               /\ heap'[req'[r].session].messages
                    = <<HumanMessage(req'[r].message)>>
               /\ heap'[req'[r].session].canvas_context = EMPTY_CANVAS]_vars

\* the first turn is in phase 2 on a session that is no longer the one
\* stored under its id, and the second turn started from nothing
C30_Witness ==
  /\ req[1].pc = "drawing" /\ req[1].session_id = "a"
  /\ req[2].pc = "streaming" /\ req[2].session_id = "a"
  /\ "a" \in DOMAIN _sessions
  /\ _sessions["a"] = req[2].session /\ req[1].session # req[2].session
  /\ Len(heap[req[1].session].messages) = 2
  /\ req[2].before = << >>
  /\ History("a") = <<HumanMessage(MSG_DRAW)>>

\* the number a sequence of decimal digits denotes
RECURSIVE ParseInt(_)
ParseInt(ds) ==
  IF ds = << >> THEN 0
  ELSE 10 * ParseInt(SubSeq(ds, 1, Len(ds) - 1))
         + (CHOOSE d \in 0..9 : Digits[d + 1] = ds[Len(ds)])

\* the number written at position p of the context: its digits up to the
\* next blank
NumberAt(ctx, p) ==
  ParseInt(SubSeq(ctx, p, Find(ctx, <<" ">>, p) - 1))

\* the context is a summary of an element list
IsSummary(ctx) == ctx # << >> /\ ctx[1] = "The whiteboard currently has "

\* the total number of elements the summary reports
ReportedTotal(ctx) ==
  ParseInt(SubSeq(ctx, 2,
    Find(ctx, <<" shape(s)/element(s) drawn by the user: ">>, 1) - 1))

\* the positions at which the per-type counts of the summary start: after
\* the colon of the first sentence and after each comma of its list
CountPositions(ctx) ==
  LET colon == Find(ctx, <<" shape(s)/element(s) drawn by the user: ">>, 1)
      stop == SetMin({ i \in 1..Len(ctx) :
                         ctx[i] \in {".\n", ". There is no text written on the board."} })
  IN  { p \in (colon + 1)..(stop - 1) :
          \/ p = colon + 1
          \/ ctx[p - 1] = " " /\ ctx[p - 2] = "," }

RECURSIVE SumOver(_, _)
SumOver(ctx, ps) ==
  IF ps = {} THEN 0
  ELSE LET p == CHOOSE x \in ps : TRUE
       IN  NumberAt(ctx, p) + SumOver(ctx, ps \ {p})

\* C31: in the context produced by context-update from an element list of
\* any length, the reported total number of elements equals the sum of the
\* reported per-type counts, also when the list is longer than the
\* processing cap of 50 elements.
C31_TotalIsSumOfCounts ==
  \A sid \in DOMAIN _sessions :
    LET ctx == heap[_sessions[sid]].canvas_context
    IN  IsSummary(ctx)
          => ReportedTotal(ctx) = SumOver(ctx, CountPositions(ctx))

====
